---------------------------- MODULE Spec2Model ----------------------------
(***************************************************************************)
(* Archetype storage and query core (pi_archtype): Table, Column/Blob,     *)
(* Archetype and QueryState, modelled as state machines.                   *)
(*                                                                         *)
(* Rows are 0-based as in the source; a sequence position is row + 1.      *)
(* World archetype index 0 is the world's empty archetype: it owns no row  *)
(* (Archetype::mark_remove, archetype.rs:369, skips it), so the tables of  *)
(* the row-level specifications have the indices 1..2.                     *)
(***************************************************************************)
EXTENDS Integers, Sequences, FiniteSets, TLC

\* ------------------------------------------------------------------ bounds
MaxEnt == 2
MaxVer == 0
MaxRows == MaxEnt
MaxLen == 6
MaxTick == 2
MaxMemSize == 2
Skip == 2
MaxBlobRows == 4
MaxSlack == 1
MaxAdd == 1

\* --------------------------------------------------------------- universe
Null == 0
Entities == 1..MaxEnt
ArIds == {1, 2}
Comps == {"A", "B"}
ArComps(a) == IF a = 0 THEN {} ELSE IF a = 1 THEN {"A"} ELSE {"A", "B"}
DropComps == {"A", "B"}
Rows == 0..(MaxRows - 1)
NoVal == <<0, "", 0>>
Vals == (Entities \X Comps \X (0..MaxVer)) \cup {NoVal}
NoAddr == [ar |-> -1, row |-> -1]
IdleOp == [kind |-> "idle", pc |-> "idle", e |-> Null, src |-> 0, srow |-> 0, dst |-> 0, drow |-> 0,
           tick |-> 0]

VARIABLES
    entities,   \* Table.entities of each archetype: sequence of Entity, Null = removed / unset
    removes,    \* Table.removes of each archetype: sequence of Row
    cells,      \* cells[a][c][row]: the value stored in column c of archetype a
    world,      \* World.entitys: Entity -> [ar, row] or NoAddr
    dropCount,  \* how often the drop function ran on each value
    ver,        \* ver[e][c]: number of values of component c written for e so far
    op,         \* the structural operation in flight
    nextEnt,    \* entity allocator
    alive,      \* alive[a]: the Table of archetype a has not been dropped
    ticks,      \* ticks[a]: the tick of each row of archetype a, 0 = never written
    records,    \* records[a][i]: the rows logged for the i-th record listener of archetype a
    archetype_arr, \* World.archetype_arr: the archetypes in creation order
    qstate,     \* the QueryState of the query under study
    qiter,      \* its QueryIter
    ret,        \* what the last call on the query returned
    blob        \* the Blob under study

tvars == <<entities, removes, cells, world, dropCount, ver, op, nextEnt, alive>>
qvars == <<ticks, records, archetype_arr, qstate, qiter, ret, blob>>
vars == <<entities, removes, cells, world, dropCount, ver, op, nextEnt, alive,
          ticks, records, archetype_arr, qstate, qiter, ret, blob>>

\* The query side and the Blob before anything is built on them.
NoQuery == [pc |-> "none"]
NoIter == [pc |-> "none"]
NoRet == [kind |-> "none"]
NoBlob == [mem_size |-> 0]
QueryUnused ==
    /\ ticks = [a \in ArIds |-> [r \in Rows |-> 0]]
    /\ records = [a \in ArIds |-> <<<<>>, <<>>>>]
    /\ archetype_arr = <<>>
    /\ qstate = NoQuery
    /\ qiter = NoIter
    /\ ret = NoRet
    /\ blob = NoBlob

\* ------------------------------------------------------------------ Table
Table_len(a) == Len(entities[a])
Table_get(a, row) == entities[a][row + 1]

\* Sequence s with position row + 1 set to v.
SetAt(s, row, v) == [s EXCEPT ![row + 1] = v]

\* Column::drop_row: runs the column's drop function on the cell, if it has one.
Column_drop_row(dc, a, c, row) ==
    IF c \in DropComps THEN [dc EXCEPT ![cells[a][c][row]] = @ + 1] ELSE dc

RECURSIVE DropColumns(_, _, _, _)
DropColumns(dc, a, cs, row) ==
    IF cs = {} THEN dc
    ELSE LET c == CHOOSE x \in cs : TRUE
         IN DropColumns(Column_drop_row(dc, a, c, row), a, cs \ {c}, row)

\* Table::destroy: result [e, ents, rem, dc].
\* Mutant: destroy that leaves the entity slot set.
Table_destroy_nonull(a, row) ==
    LET e == Table_get(a, row)
    IN IF e = Null
       THEN [e |-> Null, ents |-> entities[a], rem |-> removes[a], dc |-> dropCount]
       ELSE [e |-> e, ents |-> entities[a],
             rem |-> Append(removes[a], row),
             dc |-> DropColumns(dropCount, a, ArComps(a), row)]

\* Mutant: destroy that fills the row with the table's last entity.
Table_destroy_swap(a, row) ==
    LET e == Table_get(a, row)
        last == Table_len(a) - 1
    IN IF e = Null
       THEN [e |-> Null, ents |-> entities[a], rem |-> removes[a], dc |-> dropCount]
       ELSE [e |-> e, ents |-> SetAt(SetAt(entities[a], row, Table_get(a, last)), last, Null),
             rem |-> Append(removes[a], last),
             dc |-> DropColumns(dropCount, a, ArComps(a), row)]

\* Mutant: destroy without the test of the entity slot.
Table_destroy_again(a, row) ==
    [e |-> Table_get(a, row), ents |-> SetAt(entities[a], row, Null),
     rem |-> Append(removes[a], row),
     dc |-> DropColumns(dropCount, a, ArComps(a), row)]

Table_destroy(a, row) ==
    LET e == Table_get(a, row)
    IN IF e = Null
       THEN [e |-> Null, ents |-> entities[a], rem |-> removes[a], dc |-> dropCount]
       ELSE [e |-> e, ents |-> SetAt(entities[a], row, Null),
             rem |-> Append(removes[a], row),
             dc |-> DropColumns(dropCount, a, ArComps(a), row)]

\* Table::mark_remove: result [e, ents, rem].
\* Mutant: mark_remove that does not queue the row.
Table_mark_remove_noqueue(a, row) ==
    LET e == Table_get(a, row)
    IN IF e = Null
       THEN [e |-> Null, ents |-> entities[a], rem |-> removes[a]]
       ELSE [e |-> e, ents |-> SetAt(entities[a], row, Null), rem |-> removes[a]]

\* Mutant: mark_remove that queues the row and leaves the entity slot set.
Table_mark_remove_keepslot(a, row) ==
    LET e == Table_get(a, row)
    IN IF e = Null
       THEN [e |-> Null, ents |-> entities[a], rem |-> removes[a]]
       ELSE [e |-> e, ents |-> entities[a], rem |-> Append(removes[a], row)]

Table_mark_remove(a, row) ==
    LET e == Table_get(a, row)
    IN IF e = Null
       THEN [e |-> Null, ents |-> entities[a], rem |-> removes[a]]
       ELSE [e |-> e, ents |-> SetAt(entities[a], row, Null),
             rem |-> Append(removes[a], row)]

\* Archetype::mark_remove: delegates to the table unless the archetype is the
\* world's archetype 0.
Archetype_mark_remove(a, row) ==
    IF a > 0 THEN Table_mark_remove(a, row)
    ELSE [e |-> Null, ents |-> entities[a], rem |-> removes[a]]


\* ------------------------------------------------- Table::removes_action
\* action.sort_unstable() on the pairs (row, row): ascending by row.
RECURSIVE InsertSorted(_, _)
InsertSorted(s, x) ==
    IF s = <<>> THEN <<x>>
    ELSE IF x[1] <= Head(s)[1] THEN <<x>> \o s
    ELSE <<Head(s)>> \o InsertSorted(Tail(s), x)

RECURSIVE SortRows(_)
SortRows(s) == IF s = <<>> THEN <<>> ELSE InsertSorted(SortRows(Tail(s)), Head(s))

RECURSIVE Pow(_, _)
Pow(b, n) == IF n = 0 THEN 1 ELSE b * Pow(b, n - 1)

\* r * log2(r) < entity_len - remove_len, over the integers: r^r < 2^(L - R).
SparseRemoves(remove_len, entity_len) ==
    Pow(remove_len, remove_len) < Pow(2, entity_len - remove_len)

\* The two-pointer walk of the sparse branch; action holds pairs <<src, dst>>,
\* start and end are the source's 0-based cursors.
\* Mutant: the two-pointer walk pairs every index from the top, removed or not.
RECURSIVE SparseLoop_noskip(_, _, _, _)
SparseLoop_noskip(action, start, end, index) ==
    IF start >= end
    THEN [len |-> index, action |-> SubSeq(action, 1, end)]
    ELSE SparseLoop_noskip([action EXCEPT ![start + 1] = <<index - 1, @[2]>>],
                           start + 1, end, index - 1)

RECURSIVE SparseLoop(_, _, _, _)
SparseLoop(action, start, end, index) ==
    IF start >= end
    THEN [len |-> index, action |-> SubSeq(action, 1, end)]
    ELSE LET idx == index - 1
             remove_row == action[end]
         IN IF remove_row[1] = idx
            THEN SparseLoop(action, start, end - 1, idx)
            ELSE SparseLoop([action EXCEPT ![start + 1] = <<idx, @[2]>>],
                            start + 1, end, idx)

\* The bitset walk of the dense branch: ones is the ascending list of set bits.
RECURSIVE DenseInner(_, _, _, _, _)
RECURSIVE DenseOuter(_, _, _, _)
DenseOuter(ones, set, end, action) ==
    IF ones = <<>> THEN [len |-> end, action |-> action]
    ELSE DenseInner(Head(ones), Tail(ones), set, end, action)
\* Mutant: the tail walk takes the last row without testing its bit.
DenseInner_noskip(row, rest, set, end, action) ==
    IF row >= end THEN [len |-> end, action |-> action]
    ELSE DenseOuter(rest, set, end - 1, Append(action, <<end - 1, row>>))

DenseInner(row, rest, set, end, action) ==
    IF row >= end THEN [len |-> end, action |-> action]
    ELSE LET e2 == end - 1
         IN IF e2 \notin set
            THEN DenseOuter(rest, set, e2, Append(action, <<e2, row>>))
            ELSE DenseInner(row, rest, set, e2, action)

SeqToSet(s) == {s[i] : i \in 1..Len(s)}
RECURSIVE SetToSortedSeq(_)
SetToSortedSeq(S) ==
    IF S = {} THEN <<>>
    ELSE LET m == CHOOSE x \in S : \A y \in S : x <= y
         IN <<m>> \o SetToSortedSeq(S \ {m})

\* action.push((*row, *row)) for every removed row.
RECURSIVE RowPairs(_)
RowPairs(s) == IF s = <<>> THEN <<>> ELSE << <<Head(s), Head(s)>> >> \o RowPairs(Tail(s))

RemovesSparse(rem, entity_len) ==
    SparseLoop(SortRows(RowPairs(rem)), 0, Len(rem), entity_len)

RemovesDense(rem, entity_len) ==
    DenseOuter(SetToSortedSeq(SeqToSet(rem)), SeqToSet(rem), entity_len, <<>>)

\* Table::removes_action: [len: the new entity length, action: the move pairs].
removes_action(rem, remove_len, entity_len) ==
    IF remove_len >= entity_len THEN [len |-> 0, action |-> <<>>]
    ELSE IF remove_len = 1
    THEN [len |-> entity_len - 1,
          action |-> IF rem[1] + 1 < entity_len
                     THEN << <<entity_len - 1, rem[1]>> >> ELSE <<>>]
    ELSE IF SparseRemoves(remove_len, entity_len) THEN RemovesSparse(rem, entity_len)
    ELSE RemovesDense(rem, entity_len)

\* ---------------------------------------------------------- Table::settle
\* Column::collect: copies the cell of every move pair, in order.
\* Mutant: each pair copies the destination cell over the source cell.
RECURSIVE Column_collect_back(_, _)
Column_collect_back(col, action) ==
    IF action = <<>> THEN col
    ELSE Column_collect_back([col EXCEPT ![Head(action)[1]] = col[Head(action)[2]]],
                             Tail(action))

RECURSIVE Column_collect(_, _)
Column_collect(col, action) ==
    IF action = <<>> THEN col
    ELSE Column_collect([col EXCEPT ![Head(action)[2]] = col[Head(action)[1]]],
                        Tail(action))

\* Blob::reserve(len, 0) at the end of Column::collect keeps the cells below
\* len; the storage above it is released or left unspecified.
Blob_keep(col, len) == [r \in DOMAIN col |-> IF r < len THEN col[r] ELSE NoVal]

\* Table::settle_columns
Table_settle_columns(a, len, action) ==
    [c \in Comps |-> IF c \in ArComps(a)
                     THEN Blob_keep(Column_collect(cells[a][c], action), len)
                     ELSE cells[a][c]]

\* World::replace_row
World_replace_row(w, e, row) ==
    IF e \in DOMAIN w /\ w[e] # NoAddr THEN [w EXCEPT ![e].row = row] ELSE w

\* The entity loop of Table::settle: moves each entity and remaps it in the world.
RECURSIVE SettleEntities(_, _, _)
\* Mutant: the loop moves the entities and leaves the world's rows alone.
RECURSIVE SettleEntities_noremap(_, _, _)
SettleEntities_noremap(ents, w, action) ==
    IF action = <<>> THEN [ents |-> ents, w |-> w]
    ELSE LET src == Head(action)[1]
             dst == Head(action)[2]
             e == ents[src + 1]
         IN SettleEntities_noremap(SetAt(SetAt(ents, src, Null), dst, e), w, Tail(action))

SettleEntities(ents, w, action) ==
    IF action = <<>> THEN [ents |-> ents, w |-> w]
    ELSE LET src == Head(action)[1]
             dst == Head(action)[2]
             e == ents[src + 1]
         IN SettleEntities(SetAt(SetAt(ents, src, Null), dst, e),
                           World_replace_row(w, e, dst), Tail(action))

\* Mutant: settle that leaves the removes queue as it was.
Table_settle_keepremoves(a) ==
    IF Len(removes[a]) = 0
    THEN [ents |-> entities[a], rem |-> removes[a], cols |-> cells[a], w |-> world,
          action |-> <<>>]
    ELSE LET ra == removes_action(removes[a], Len(removes[a]), Len(entities[a]))
             moved == SettleEntities(entities[a], world, ra.action)
         IN [ents |-> SubSeq(moved.ents, 1, ra.len),
             rem |-> removes[a],
             cols |-> Table_settle_columns(a, ra.len, ra.action),
             w |-> moved.w,
             action |-> ra.action]

\* Table::settle: result [ents, rem, cols, w, action].
Table_settle(a) ==
    IF Len(removes[a]) = 0
    THEN [ents |-> entities[a], rem |-> removes[a], cols |-> cells[a], w |-> world,
          action |-> <<>>]
    ELSE LET ra == removes_action(removes[a], Len(removes[a]), Len(entities[a]))
             moved == SettleEntities(entities[a], world, ra.action)
         IN [ents |-> SubSeq(moved.ents, 1, ra.len),
             rem |-> <<>>,
             cols |-> Table_settle_columns(a, ra.len, ra.action),
             w |-> moved.w,
             action |-> ra.action]


\* Mutant: alloc that hands out the last slot again instead of a new one.
Table_alloc_same(a) == IF entities[a] = <<>> THEN <<Null>> ELSE entities[a]

\* Table::alloc: reserves the next row; its entity slot starts null.
Table_alloc(a) == Append(entities[a], Null)

\* Table::set
Table_set(a, row, e) == SetAt(entities[a], row, e)

\* impl Drop for Table: drops, per column with a drop function, the cell of
\* every row below the length whose entity is not null.
RECURSIVE DropRows(_, _, _, _)
DropRows(dc, a, c, rows) ==
    IF rows = {} THEN dc
    ELSE LET r == CHOOSE x \in rows : TRUE
         IN DropRows([dc EXCEPT ![cells[a][c][r]] = @ + 1], a, c, rows \ {r})

RECURSIVE DropTableColumns(_, _, _, _)
DropTableColumns(dc, a, cs, rows) ==
    IF cs = {} THEN dc
    ELSE LET c == CHOOSE x \in cs : TRUE
         IN DropTableColumns(IF c \in DropComps THEN DropRows(dc, a, c, rows) ELSE dc,
                             a, cs \ {c}, rows)

\* Mutant: the table's drop does not test the entity slot.
Table_drop_all(a) ==
    IF Table_len(a) = 0 THEN dropCount
    ELSE DropTableColumns(dropCount, a, ArComps(a), 0..(Table_len(a) - 1))

Table_drop(a) ==
    IF Table_len(a) = 0 THEN dropCount
    ELSE DropTableColumns(dropCount, a, ArComps(a),
                          {r \in 0..(Table_len(a) - 1) : Table_get(a, r) # Null})

\* ------------------------------------------------ the structural protocol
\* (table.rs:1-5) insert: alloc, write the components, write the world's
\* address, set the entity last.  destroy: the table row, then the world.
\* alter: alloc in the new table, write moved and added components, change the
\* world's address, mark the old row removed, drop the removed components,
\* set the entity in the new table last.
Idle == op.pc = "idle"
WorldAlive == \A a \in ArIds : alive[a]
NewVal(e, c) == <<e, c, ver[e][c]>>

Init ==
    /\ entities = [a \in ArIds |-> <<>>]
    /\ removes = [a \in ArIds |-> <<>>]
    /\ cells = [a \in ArIds |-> [c \in Comps |-> [r \in Rows |-> NoVal]]]
    /\ world = [e \in Entities |-> NoAddr]
    /\ dropCount = [v \in Vals |-> 0]
    /\ ver = [e \in Entities |-> [c \in Comps |-> 0]]
    /\ op = IdleOp
    /\ nextEnt = 1
    /\ alive = [a \in ArIds |-> TRUE]
    /\ QueryUnused

InsertAlloc(a) ==
    /\ Idle /\ WorldAlive
    /\ nextEnt <= MaxEnt
    /\ Table_len(a) < MaxRows
    /\ entities' = [entities EXCEPT ![a] = Table_alloc(a)]
    /\ op' = [IdleOp EXCEPT !.kind = "insert", !.pc = "write", !.e = nextEnt,
                            !.dst = a, !.drow = Table_len(a)]
    /\ nextEnt' = nextEnt + 1
    /\ UNCHANGED <<removes, cells, world, dropCount, ver, alive>>
    /\ UNCHANGED qvars

InsertWrite ==
    /\ op.kind = "insert" /\ op.pc = "write"
    /\ cells' = [cells EXCEPT ![op.dst] =
                    [c \in Comps |-> IF c \in ArComps(op.dst)
                                     THEN [@[c] EXCEPT ![op.drow] = NewVal(op.e, c)]
                                     ELSE @[c]]]
    /\ ver' = [ver EXCEPT ![op.e] =
                    [c \in Comps |-> IF c \in ArComps(op.dst) THEN @[c] + 1 ELSE @[c]]]
    /\ op' = [op EXCEPT !.pc = "world"]
    /\ UNCHANGED <<entities, removes, world, dropCount, nextEnt, alive>>
    /\ UNCHANGED qvars

InsertWorld ==
    /\ op.kind = "insert" /\ op.pc = "world"
    /\ world' = [world EXCEPT ![op.e] = [ar |-> op.dst, row |-> op.drow]]
    /\ op' = [op EXCEPT !.pc = "set"]
    /\ UNCHANGED <<entities, removes, cells, dropCount, ver, nextEnt, alive>>
    /\ UNCHANGED qvars

InsertSet ==
    /\ op.kind = "insert" /\ op.pc = "set"
    /\ entities' = [entities EXCEPT ![op.dst] = Table_set(op.dst, op.drow, op.e)]
    /\ op' = IdleOp
    /\ UNCHANGED <<removes, cells, world, dropCount, ver, nextEnt, alive>>
    /\ UNCHANGED qvars

DestroyTable(e) ==
    /\ Idle /\ WorldAlive
    /\ world[e] # NoAddr
    /\ LET r == Table_destroy(world[e].ar, world[e].row)
       IN /\ entities' = [entities EXCEPT ![world[e].ar] = r.ents]
          /\ removes' = [removes EXCEPT ![world[e].ar] = r.rem]
          /\ dropCount' = r.dc
          /\ op' = [IdleOp EXCEPT !.kind = "destroy", !.pc = "world", !.e = r.e,
                                  !.src = world[e].ar, !.srow = world[e].row]
    /\ UNCHANGED <<cells, world, ver, nextEnt, alive>>
    /\ UNCHANGED qvars

DestroyWorld ==
    /\ op.kind = "destroy" /\ op.pc = "world"
    /\ world' = [world EXCEPT ![op.e] = NoAddr]
    /\ op' = IdleOp
    /\ UNCHANGED <<entities, removes, cells, dropCount, ver, nextEnt, alive>>
    /\ UNCHANGED qvars

AlterAlloc(e) ==
    /\ Idle /\ WorldAlive
    /\ world[e] # NoAddr
    /\ LET src == world[e].ar
           dst == 3 - src
       IN /\ Table_len(dst) < MaxRows
          /\ \A c \in ArComps(dst) \ ArComps(src) : ver[e][c] <= MaxVer
          /\ entities' = [entities EXCEPT ![dst] = Table_alloc(dst)]
          /\ op' = [kind |-> "alter", pc |-> "write", e |-> e, src |-> src,
                    srow |-> world[e].row, dst |-> dst, drow |-> Table_len(dst),
                    tick |-> 0]
    /\ UNCHANGED <<removes, cells, world, dropCount, ver, nextEnt, alive>>
    /\ UNCHANGED qvars

AlterWrite ==
    /\ op.kind = "alter" /\ op.pc = "write"
    /\ cells' = [cells EXCEPT ![op.dst] =
                    [c \in Comps |->
                        IF c \in ArComps(op.dst) \cap ArComps(op.src)
                        THEN [@[c] EXCEPT ![op.drow] = cells[op.src][c][op.srow]]
                        ELSE IF c \in ArComps(op.dst)
                        THEN [@[c] EXCEPT ![op.drow] = NewVal(op.e, c)]
                        ELSE @[c]]]
    /\ ver' = [ver EXCEPT ![op.e] =
                    [c \in Comps |-> IF c \in ArComps(op.dst) \ ArComps(op.src)
                                     THEN @[c] + 1 ELSE @[c]]]
    /\ op' = [op EXCEPT !.pc = "world"]
    /\ UNCHANGED <<entities, removes, world, dropCount, nextEnt, alive>>
    /\ UNCHANGED qvars

AlterWorld ==
    /\ op.kind = "alter" /\ op.pc = "world"
    /\ world' = [world EXCEPT ![op.e] = [ar |-> op.dst, row |-> op.drow]]
    /\ op' = [op EXCEPT !.pc = "mark"]
    /\ UNCHANGED <<entities, removes, cells, dropCount, ver, nextEnt, alive>>
    /\ UNCHANGED qvars

AlterMark ==
    /\ op.kind = "alter" /\ op.pc = "mark"
    /\ LET r == Archetype_mark_remove(op.src, op.srow)
       IN /\ entities' = [entities EXCEPT ![op.src] = r.ents]
          /\ removes' = [removes EXCEPT ![op.src] = r.rem]
    /\ op' = [op EXCEPT !.pc = "drop"]
    /\ UNCHANGED <<cells, world, dropCount, ver, nextEnt, alive>>
    /\ UNCHANGED qvars

AlterDrop ==
    /\ op.kind = "alter" /\ op.pc = "drop"
    /\ dropCount' = DropColumns(dropCount, op.src, ArComps(op.src) \ ArComps(op.dst), op.srow)
    /\ op' = [op EXCEPT !.pc = "set"]
    /\ UNCHANGED <<entities, removes, cells, world, ver, nextEnt, alive>>
    /\ UNCHANGED qvars

AlterSet ==
    /\ op.kind = "alter" /\ op.pc = "set"
    /\ entities' = [entities EXCEPT ![op.dst] = Table_set(op.dst, op.drow, op.e)]
    /\ op' = IdleOp
    /\ UNCHANGED <<removes, cells, world, dropCount, ver, nextEnt, alive>>
    /\ UNCHANGED qvars

Settle(a) ==
    /\ Idle /\ WorldAlive
    /\ LET r == Table_settle(a)
       IN /\ entities' = [entities EXCEPT ![a] = r.ents]
          /\ removes' = [removes EXCEPT ![a] = r.rem]
          /\ cells' = [cells EXCEPT ![a] = r.cols]
          /\ world' = r.w
          \* op.kind records that the last step was a settle that moved rows
          /\ op' = IF r.action # <<>> THEN [IdleOp EXCEPT !.kind = "settled", !.src = a]
                    ELSE IdleOp
    /\ UNCHANGED <<dropCount, ver, nextEnt, alive>>
    /\ UNCHANGED qvars

DropTable(a) ==
    /\ Idle
    /\ alive[a]
    /\ \A b \in ArIds : b < a => ~alive[b]
    /\ dropCount' = Table_drop(a)
    /\ alive' = [alive EXCEPT ![a] = FALSE]
    /\ op' = IdleOp
    /\ UNCHANGED <<entities, removes, cells, world, ver, nextEnt>>
    /\ UNCHANGED qvars

Next ==
    \/ \E a \in ArIds : InsertAlloc(a)
    \/ InsertWrite
    \/ InsertWorld
    \/ InsertSet
    \/ \E e \in Entities : DestroyTable(e)
    \/ DestroyWorld
    \/ \E e \in Entities : AlterAlloc(e)
    \/ AlterWrite
    \/ AlterWorld
    \/ AlterMark
    \/ AlterDrop
    \/ AlterSet
    \/ \E a \in ArIds : Settle(a)
    \/ \E a \in ArIds : DropTable(a)

Spec == Init /\ [][Next]_vars


\* ------------------------------------------------------------ SpecSettle
\* Table::settle on every table state the protocol can leave behind at the end
\* of an epoch: a table of archetype 1 of any length up to MaxLen, any set of
\* its rows destroyed (entity slot null, row queued in removes) in any order.
\* The entity inserted at row r is r + 1.
RECURSIVE Perms(_)
Perms(S) ==
    IF S = {} THEN {<<>>}
    ELSE UNION {{<<x>> \o p : p \in Perms(S \ {x})} : x \in S}

InitSettle ==
    \E L \in 0..MaxLen : \E nulls \in SUBSET (0..(L - 1)) : \E rem \in Perms(nulls) :
        /\ entities = [a \in ArIds |-> IF a = 1
                          THEN [i \in 1..L |-> IF (i - 1) \in nulls THEN Null ELSE i]
                          ELSE <<>>]
        /\ removes = [a \in ArIds |-> IF a = 1 THEN rem ELSE <<>>]
        /\ cells = [a \in ArIds |-> [c \in Comps |-> [r \in 0..(MaxLen - 1) |->
                          IF a = 1 /\ c = "A" /\ r < L THEN <<r + 1, "A", 0>> ELSE NoVal]]]
        /\ world = [e \in 1..MaxLen |-> IF e <= L /\ (e - 1) \notin nulls
                                        THEN [ar |-> 1, row |-> e - 1] ELSE NoAddr]
        /\ dropCount = [v \in ((1..MaxLen) \X Comps \X {0}) \cup {NoVal} |->
                          IF v # NoVal /\ v[2] = "A" /\ (v[1] - 1) \in nulls THEN 1 ELSE 0]
        /\ ver = [e \in 1..MaxLen |-> [c \in Comps |-> IF c = "A" /\ e <= L THEN 1 ELSE 0]]
        /\ op = [IdleOp EXCEPT !.kind = "unsettled", !.srow = L]
        /\ nextEnt = L + 1
        /\ alive = [a \in ArIds |-> TRUE]
        /\ QueryUnused

\* op.srow keeps the length before the settle, op.drow the number of move pairs.
SettleOnce ==
    /\ op.kind = "unsettled"
    /\ LET r == Table_settle(1)
       IN /\ entities' = [entities EXCEPT ![1] = r.ents]
          /\ removes' = [removes EXCEPT ![1] = r.rem]
          /\ cells' = [cells EXCEPT ![1] = r.cols]
          /\ world' = r.w
          /\ op' = [op EXCEPT !.kind = "settled", !.src = 1, !.drow = Len(r.action)]
    /\ UNCHANGED <<dropCount, ver, nextEnt, alive>>
    /\ UNCHANGED qvars

NextSettle == SettleOnce

SpecSettle == InitSettle /\ [][NextSettle]_vars

Written == {v \in Vals \ {NoVal} : v[3] < ver[v[1]][v[2]]}
C5_DropExactlyOnce ==
    /\ \A v \in Vals \ {NoVal} : dropCount[v] <= 1
    /\ dropCount[NoVal] = 0
    /\ \A a \in ArIds : \A r \in 0..(Table_len(a) - 1) : \A c \in ArComps(a) :
          (alive[a] /\ Table_get(a, r) # Null) => dropCount[cells[a][c][r]] = 0
    /\ (\A a \in ArIds : ~alive[a]) => \A v \in Written : dropCount[v] = 1

\* All tables dropped after a destroy, an alter that removed B, and with a live
\* row left to the table's drop.
C5_Witness ==
    /\ \A a \in ArIds : ~alive[a]
    /\ \E e \in Entities : world[e] = NoAddr /\ ver[e]["A"] = 1
    /\ \E e \in Entities : world[e] # NoAddr /\ world[e].ar = 1 /\ ver[e]["B"] = 1

\* C10: Table.destroy(row) on a row whose entity is not null runs the drop
\* function of every column on that row once, appends the row to removes, sets
\* the entity slot to null and returns the entity that was stored there.
C10_Destroy ==
    [][(Idle /\ op'.kind = "destroy") =>
         LET a == op'.src
             row == op'.srow
         IN Table_get(a, row) # Null =>
              /\ op'.e = Table_get(a, row)
              /\ entities'[a] = SetAt(entities[a], row, Null)
              /\ removes'[a] = Append(removes[a], row)
              /\ \A c \in ArComps(a) :
                    dropCount'[cells[a][c][row]] = dropCount[cells[a][c][row]] + 1
              /\ \A v \in Vals : (\A c \in ArComps(a) : v # cells[a][c][row])
                                    => dropCount'[v] = dropCount[v]]_vars

\* The state right after Table.destroy of a row of archetype 2 (two columns).
C10_Witness ==
    /\ op.kind = "destroy" /\ op.pc = "world"
    /\ op.src = 2 /\ op.e # Null
    /\ Table_get(2, op.srow) = Null


\* -------------------------------------------------------------- SpecIter
\* A query aligned to both archetypes iterates while another system inserts,
\* changes and destroys rows.  The i-th record listener of the query listens
\* on component ListenComp(i); an archetype keeps a log for each listener whose
\* component it has.
Ticks == 1..MaxTick
ListenComp(i) == IF i = 1 THEN "A" ELSE "B"
NullIndex == -1

\* Archetype::find_records: the record indexes of the query in archetype a.
find_records(a, listener_count) ==
    IF listener_count >= 2 /\ ListenComp(2) \in ArComps(a) THEN <<1, 2>>
    ELSE IF listener_count >= 1 THEN <<1>>
    ELSE <<>>

\* QueryState::new; q stands for the type parameter Q: the component fetched.
QueryState_new(c, q) ==
    [pc |-> "ready", q |-> q, listener_count |-> c, vec |-> <<>>, archetype_len |-> 0,
     map |-> {}, last |-> [ar |-> NullIndex, local |-> 0], removes |-> <<>>]

\* An archetype of World.archetype_arr: listened = the query's records were
\* added to it, ticked = an add-tick was recorded in it, tick_listened = the
\* records were there when the first add-tick was recorded, born = when it
\* was created relative to the query's init_state.
NewArchetype(a, born) ==
    [id |-> a, listened |-> FALSE, ticked |-> FALSE, tick_listened |-> FALSE, born |-> born]

\* QueryState after align has matched archetypes 1 and 2.
AlignedState(c) ==
    [QueryState_new(c, "A") EXCEPT
        !.vec = <<[ar |-> 1, d |-> find_records(1, c)], [ar |-> 2, d |-> find_records(2, c)]>>,
        !.archetype_len = 2]

QueryIter_new(state, tick) ==
    [pc |-> "run", tick |-> tick,
     ar_index |-> IF Len(state.vec) = 0 THEN NullIndex ELSE Len(state.vec) - 1,
     pos |-> 0, d4 |-> 1, seen |-> {}]

ItAr(it) == qstate.vec[it.ar_index + 1].ar
ItD(it) == qstate.vec[it.ar_index + 1].d
ItLog(it) == records[ItAr(it)][ItD(it)[it.d4]]
RowTick(a, row) == ticks[a][row]

\* Mutant: at the end of the last archetype the walk is rewound to the first
\* one visited instead of being marked finished.
RECURSIVE iter_normal_rewind(_)
iter_normal_rewind(it) ==
    IF it.pos < Table_len(ItAr(it))
    THEN LET row == it.pos
             t == RowTick(ItAr(it), row)
             it2 == [it EXCEPT !.pos = @ + 1]
         IN IF t > 0 /\ t < it.tick
            THEN [it |-> it2, key |-> [ar |-> ItAr(it), row |-> row]]
            ELSE iter_normal_rewind(it2)
    ELSE IF it.ar_index = 0
    THEN [it |-> [it EXCEPT !.ar_index = Len(qstate.vec) - 1, !.pos = 0], key |-> NoAddr]
    ELSE iter_normal_rewind([it EXCEPT !.ar_index = @ - 1, !.pos = 0])

RECURSIVE iter_normal(_)
iter_normal(it) ==
    IF it.pos < Table_len(ItAr(it))
    THEN LET row == it.pos
             t == RowTick(ItAr(it), row)
             it2 == [it EXCEPT !.pos = @ + 1]
         IN IF t > 0 /\ t < it.tick
            THEN [it |-> it2, key |-> [ar |-> ItAr(it), row |-> row]]
            ELSE iter_normal(it2)
    ELSE IF it.ar_index = 0
    THEN [it |-> [it EXCEPT !.ar_index = NullIndex], key |-> NoAddr]
    ELSE iter_normal([it EXCEPT !.ar_index = @ - 1, !.pos = 0])

RECURSIVE iter_record(_)
iter_record(it) ==
    IF it.pos < Len(ItLog(it))
    THEN LET k == ItLog(it)[it.pos + 1]
             t == RowTick(ItAr(it), k)
             it2 == [it EXCEPT !.pos = @ + 1]
         IN IF Table_get(ItAr(it), k) = Null THEN iter_record(it2)
            ELSE IF t > 0 /\ t < it.tick
            THEN [it |-> it2, key |-> [ar |-> ItAr(it), row |-> k]]
            ELSE iter_record(it2)
    ELSE IF it.ar_index = 0
    THEN [it |-> [it EXCEPT !.ar_index = NullIndex], key |-> NoAddr]
    ELSE iter_record([it EXCEPT !.ar_index = @ - 1, !.pos = 0])

\* Mutant: the multi-listener walk without its set of entities seen.
RECURSIVE iter_records_noseen(_)
iter_records_noseen(it) ==
    IF it.pos < Len(ItLog(it))
    THEN LET k == ItLog(it)[it.pos + 1]
             t == RowTick(ItAr(it), k)
             entity == Table_get(ItAr(it), k)
             it2 == [it EXCEPT !.pos = @ + 1]
         IN IF entity = Null THEN iter_records_noseen(it2)
            ELSE IF t = 0 /\ t = it.tick THEN iter_records_noseen(it2)
            ELSE [it |-> it2, key |-> [ar |-> ItAr(it), row |-> k]]
    ELSE IF Len(ItD(it)) > it.d4
    THEN iter_records_noseen([it EXCEPT !.d4 = @ + 1, !.pos = 0])
    ELSE IF it.ar_index > 0
    THEN iter_records_noseen([it EXCEPT !.ar_index = @ - 1, !.pos = 0, !.d4 = 1])
    ELSE [it |-> [it EXCEPT !.ar_index = NullIndex], key |-> NoAddr]

RECURSIVE iter_records(_)
iter_records(it) ==
    IF it.pos < Len(ItLog(it))
    THEN LET k == ItLog(it)[it.pos + 1]
             t == RowTick(ItAr(it), k)
             entity == Table_get(ItAr(it), k)
             it2 == [it EXCEPT !.pos = @ + 1]
         IN IF entity = Null THEN iter_records(it2)
            ELSE IF t = 0 /\ t = it.tick THEN iter_records(it2)
            ELSE IF entity \in it.seen THEN iter_records(it2)
            ELSE [it |-> [it2 EXCEPT !.seen = @ \cup {entity}],
                  key |-> [ar |-> ItAr(it), row |-> k]]
    ELSE IF Len(ItD(it)) > it.d4
    THEN iter_records([it EXCEPT !.d4 = @ + 1, !.pos = 0])
    ELSE IF it.ar_index > 0
    THEN iter_records([it EXCEPT !.ar_index = @ - 1, !.pos = 0, !.d4 = 1])
    ELSE [it |-> [it EXCEPT !.ar_index = NullIndex], key |-> NoAddr]

\* Iterator::next for QueryIter.
QueryIter_next(it) ==
    IF it.ar_index = NullIndex THEN [it |-> it, key |-> NoAddr]
    ELSE IF qstate.listener_count = 0 THEN iter_normal(it)
    ELSE IF qstate.listener_count = 1 THEN iter_record(it)
    ELSE iter_records(it)

\* Column::add_record on the row for every listened component of the archetype.
add_record(rec, a, row) ==
    [i \in 1..2 |-> IF i <= Len(find_records(a, qstate.listener_count))
                    THEN Append(rec[i], row) ELSE rec[i]]

InitIter ==
    \E c \in 0..2 :
        /\ entities = [a \in ArIds |-> <<>>]
        /\ removes = [a \in ArIds |-> <<>>]
        /\ cells = [a \in ArIds |-> [c2 \in Comps |-> [r \in Rows |-> NoVal]]]
        /\ world = [e \in Entities |-> NoAddr]
        /\ dropCount = [v \in Vals |-> 0]
        /\ ver = [e \in Entities |-> [c2 \in Comps |-> 0]]
        /\ op = IdleOp
        /\ nextEnt = 1
        /\ alive = [a \in ArIds |-> TRUE]
        /\ ticks = [a \in ArIds |-> [r \in Rows |-> 0]]
        /\ records = [a \in ArIds |-> <<<<>>, <<>>>>]
        /\ archetype_arr = <<[NewArchetype(1, "before") EXCEPT !.listened = (c > 0)],
                              [NewArchetype(2, "before") EXCEPT !.listened = (c > 0)]>>
        /\ qstate = AlignedState(c)
        /\ qiter = NoIter
        /\ ret = NoRet
        /\ blob = NoBlob

IterInsertAlloc(a, t) ==
    /\ Idle
    /\ nextEnt <= MaxEnt
    /\ Table_len(a) < MaxRows
    /\ entities' = [entities EXCEPT ![a] = Table_alloc(a)]
    /\ op' = [IdleOp EXCEPT !.kind = "insert", !.pc = "write", !.e = nextEnt,
                            !.dst = a, !.drow = Table_len(a), !.tick = t]
    /\ nextEnt' = nextEnt + 1
    /\ UNCHANGED <<removes, cells, world, dropCount, ver, alive>>
    /\ UNCHANGED qvars

IterInsertWrite ==
    /\ op.kind = "insert" /\ op.pc = "write"
    /\ ticks' = [ticks EXCEPT ![op.dst][op.drow] = op.tick]
    /\ records' = [records EXCEPT ![op.dst] = add_record(@, op.dst, op.drow)]
    /\ op' = [op EXCEPT !.pc = "world"]
    /\ UNCHANGED <<entities, removes, cells, world, dropCount, ver, nextEnt, alive>>
    /\ UNCHANGED <<archetype_arr, qstate, qiter, ret, blob>>

IterInsertWorld ==
    /\ op.kind = "insert" /\ op.pc = "world"
    /\ world' = [world EXCEPT ![op.e] = [ar |-> op.dst, row |-> op.drow]]
    /\ op' = [op EXCEPT !.pc = "set"]
    /\ UNCHANGED <<entities, removes, cells, dropCount, ver, nextEnt, alive>>
    /\ UNCHANGED qvars

IterInsertSet ==
    /\ op.kind = "insert" /\ op.pc = "set"
    /\ entities' = [entities EXCEPT ![op.dst] = Table_set(op.dst, op.drow, op.e)]
    /\ op' = IdleOp
    /\ UNCHANGED <<removes, cells, world, dropCount, ver, nextEnt, alive>>
    /\ UNCHANGED qvars

\* Column::change_record on the row of a live entity.
IterChange(e, t) ==
    /\ Idle
    /\ world[e] # NoAddr
    /\ RowTick(world[e].ar, world[e].row) < t
    /\ ticks' = [ticks EXCEPT ![world[e].ar][world[e].row] = t]
    /\ records' = [records EXCEPT ![world[e].ar] = add_record(@, world[e].ar, world[e].row)]
    /\ UNCHANGED tvars
    /\ UNCHANGED <<archetype_arr, qstate, qiter, ret, blob>>

IterDestroy(e) ==
    /\ Idle
    /\ world[e] # NoAddr
    /\ LET r == Table_destroy(world[e].ar, world[e].row)
       IN /\ entities' = [entities EXCEPT ![world[e].ar] = r.ents]
          /\ removes' = [removes EXCEPT ![world[e].ar] = r.rem]
          /\ dropCount' = r.dc
    /\ world' = [world EXCEPT ![e] = NoAddr]
    /\ UNCHANGED <<cells, ver, op, nextEnt, alive>>
    /\ UNCHANGED qvars

IterNew(t) ==
    /\ qiter.pc = "none"
    /\ qiter' = QueryIter_new(qstate, t)
    /\ UNCHANGED tvars
    /\ UNCHANGED <<ticks, records, archetype_arr, qstate, ret, blob>>

IterNext ==
    /\ qiter.pc = "run"
    /\ LET r == QueryIter_next(qiter)
       IN IF r.key = NoAddr
          THEN /\ qiter' = [r.it EXCEPT !.pc = "done"]
               /\ ret' = [kind |-> "end"]
          ELSE /\ qiter' = r.it
               /\ ret' = [kind |-> "item", ar |-> r.key.ar, row |-> r.key.row,
                          e |-> Table_get(r.key.ar, r.key.row),
                          tick |-> RowTick(r.key.ar, r.key.row)]
    /\ UNCHANGED tvars
    /\ UNCHANGED <<ticks, records, archetype_arr, qstate, blob>>

NextIter ==
    \/ \E a \in ArIds : \E t \in Ticks : IterInsertAlloc(a, t)
    \/ IterInsertWrite
    \/ IterInsertWorld
    \/ IterInsertSet
    \/ \E e \in Entities : \E t \in Ticks : IterChange(e, t)
    \/ \E e \in Entities : IterDestroy(e)
    \/ \E t \in Ticks : IterNew(t)
    \/ IterNext

SpecIter == InitIter /\ [][NextIter]_vars

\* C3: in all three iteration modes QueryIter never yields a row whose tick is
\* 0 and never yields a row whose tick equals the iterating query's tick.
C3_NeverZeroOrCurrent ==
    ret.kind = "item" => (ret.tick # 0 /\ ret.tick # qiter.tick)

\* C6: a row is yielded only after its insert has completed: every iteration
\* mode skips a row whose entity slot is null, which is what the slot holds
\* between alloc and the final set.
C6_NullSlotSkipped ==
    ret.kind = "item" => ret.e # Null


\* --------------------------------------------------------------- SpecGet
\* QueryState::get on a query without listeners, while archetypes are created,
\* the query aligns, and entities are inserted and destroyed.
\* Q::archetype_filter / F::archetype_filter: TRUE rejects the archetype.
archetype_filter(a, q) == q \notin ArComps(a)

find_records_ar(ar, qs) ==
    IF ar.listened THEN find_records(ar.id, qs.listener_count) ELSE <<>>

add_archetype(qs, ar) ==
    IF archetype_filter(ar.id, qs.q) THEN qs
    ELSE IF qs.listener_count > 0 /\ Len(find_records_ar(ar, qs)) = 0 THEN qs
    ELSE [qs EXCEPT !.vec = Append(@, [ar |-> ar.id, d |-> find_records_ar(ar, qs)])]

RECURSIVE AlignFrom(_, _, _)
AlignFrom(qs, arr, i) ==
    IF i > Len(arr) THEN qs ELSE AlignFrom(add_archetype(qs, arr[i]), arr, i + 1)

\* Mutant: align that does not store the number of archetypes it has seen.
QueryState_align_nolen(qs, arr) ==
    IF Len(arr) = qs.archetype_len THEN qs
    ELSE AlignFrom(qs, arr, qs.archetype_len + 1)

QueryState_align(qs, arr) ==
    IF Len(arr) = qs.archetype_len THEN qs
    ELSE [AlignFrom(qs, arr, qs.archetype_len + 1) EXCEPT !.archetype_len = Len(arr)]

Created == {archetype_arr[i].id : i \in 1..Len(archetype_arr)}
Matched(qs) == {qs.vec[i].ar : i \in 1..Len(qs.vec)}
MapGet(map, k) == {p[2] : p \in {x \in map : x[1] = k}}

\* QueryState::check: result [err, last, addr].
QueryState_check(last, map, w, entity) ==
    IF w[entity] = NoAddr THEN [err |-> "NoSuchEntity", last |-> last, addr |-> NoAddr]
    ELSE IF last.ar # w[entity].ar
    THEN IF MapGet(map, w[entity].ar) # {}
         THEN [err |-> "", addr |-> w[entity],
               last |-> [last EXCEPT !.local = CHOOSE v \in MapGet(map, w[entity].ar) : TRUE]]
         ELSE [err |-> "NoSuchArchetype", last |-> last, addr |-> NoAddr]
    ELSE [err |-> "", last |-> last, addr |-> w[entity]]

\* QueryState::get: result [qs, res, ar, row].
QueryState_get(qs, w, entity) ==
    LET r == QueryState_check(qs.last, qs.map, w, entity)
    IN IF r.err # ""
       THEN [qs |-> qs, res |-> r.err, ar |-> NullIndex, row |-> NullIndex]
       ELSE [qs |-> [qs EXCEPT !.last = r.last], res |-> "Ok",
             ar |-> qs.vec[r.last.local + 1].ar, row |-> r.addr.row]

InitGet ==
    \E q \in Comps :
        /\ entities = [a \in ArIds |-> <<>>]
        /\ removes = [a \in ArIds |-> <<>>]
        /\ cells = [a \in ArIds |-> [c2 \in Comps |-> [r \in Rows |-> NoVal]]]
        /\ world = [e \in Entities |-> NoAddr]
        /\ dropCount = [v \in Vals |-> 0]
        /\ ver = [e \in Entities |-> [c2 \in Comps |-> 0]]
        /\ op = IdleOp
        /\ nextEnt = 1
        /\ alive = [a \in ArIds |-> TRUE]
        /\ ticks = [a \in ArIds |-> [r \in Rows |-> 0]]
        /\ records = [a \in ArIds |-> <<<<>>, <<>>>>]
        /\ archetype_arr = <<>>
        /\ qstate = QueryState_new(0, q)
        /\ qiter = NoIter
        /\ ret = NoRet
        /\ blob = NoBlob

GetCreateArchetype(a) ==
    /\ a \notin Created
    /\ archetype_arr' = Append(archetype_arr, NewArchetype(a, "after"))
    /\ UNCHANGED tvars
    /\ UNCHANGED <<ticks, records, qstate, qiter, ret, blob>>

GetAlign ==
    /\ qstate' = QueryState_align(qstate, archetype_arr)
    /\ qstate' # qstate
    /\ UNCHANGED tvars
    /\ UNCHANGED <<ticks, records, archetype_arr, qiter, ret, blob>>

GetInsert(a) ==
    /\ a \in Created
    /\ nextEnt <= MaxEnt
    /\ Table_len(a) < MaxRows
    /\ entities' = [entities EXCEPT ![a] = SetAt(Table_alloc(a), Table_len(a), nextEnt)]
    /\ world' = [world EXCEPT ![nextEnt] = [ar |-> a, row |-> Table_len(a)]]
    /\ nextEnt' = nextEnt + 1
    /\ UNCHANGED <<removes, cells, dropCount, ver, op, alive>>
    /\ UNCHANGED qvars

GetDestroy(e) ==
    /\ world[e] # NoAddr
    /\ LET r == Table_destroy(world[e].ar, world[e].row)
       IN /\ entities' = [entities EXCEPT ![world[e].ar] = r.ents]
          /\ removes' = [removes EXCEPT ![world[e].ar] = r.rem]
          /\ dropCount' = r.dc
    /\ world' = [world EXCEPT ![e] = NoAddr]
    /\ UNCHANGED <<cells, ver, op, nextEnt, alive>>
    /\ UNCHANGED qvars

\* ret keeps, next to the result, the entity's address and whether its
\* archetype was matched when get was called.
Get(e) ==
    /\ LET r == QueryState_get(qstate, world, e)
       IN /\ qstate' = r.qs
          /\ ret' = [kind |-> "get", e |-> e, res |-> r.res, ar |-> r.ar, row |-> r.row,
                     addr |-> world[e],
                     matched |-> world[e] # NoAddr /\ world[e].ar \in Matched(qstate)]
    /\ UNCHANGED tvars
    /\ UNCHANGED <<ticks, records, archetype_arr, qiter, blob>>

NextGet ==
    \/ \E a \in ArIds : GetCreateArchetype(a)
    \/ GetAlign
    \/ \E a \in ArIds : GetInsert(a)
    \/ \E e \in Entities : GetDestroy(e)
    \/ \E e \in Entities : Get(e)

SpecGet == InitGet /\ [][NextGet]_vars

\* C4: QueryState.get(e) returns NoSuchEntity exactly when e is not in the
\* world, NoSuchArchetype exactly when e exists and its archetype was not
\* matched by align, and otherwise the item of e's row in its archetype.
C4_GetResult ==
    ret.kind = "get" =>
        /\ ret.res = "NoSuchEntity" <=> ret.addr = NoAddr
        /\ ret.res = "NoSuchArchetype" <=> (ret.addr # NoAddr /\ ~ret.matched)
        /\ (ret.addr # NoAddr /\ ret.matched) =>
              (ret.res = "Ok" /\ ret.ar = ret.addr.ar /\ ret.row = ret.addr.row)

\* ------------------------------------------------------------ SpecListen
\* init_state of a query with one listener runs while the world creates
\* archetypes and the creating operations record their first add-tick.
\* Notify::listen on an archetype.
Notify_listen(ar, q) ==
    IF archetype_filter(ar.id, q) THEN ar ELSE [ar EXCEPT !.listened = TRUE]

InitListen ==
    \E q \in Comps : \E pre \in {<<>>, <<NewArchetype(1, "before")>>,
                                  <<NewArchetype(2, "before")>>} :
        /\ entities = [a \in ArIds |-> <<>>]
        /\ removes = [a \in ArIds |-> <<>>]
        /\ cells = [a \in ArIds |-> [c2 \in Comps |-> [r \in Rows |-> NoVal]]]
        /\ world = [e \in Entities |-> NoAddr]
        /\ dropCount = [v \in Vals |-> 0]
        /\ ver = [e \in Entities |-> [c2 \in Comps |-> 0]]
        /\ op = IdleOp
        /\ nextEnt = 1
        /\ alive = [a \in ArIds |-> TRUE]
        /\ ticks = [a \in ArIds |-> [r \in Rows |-> 0]]
        /\ records = [a \in ArIds |-> <<<<>>, <<>>>>]
        /\ archetype_arr = pre
        /\ qstate = [QueryState_new(1, q) EXCEPT !.pc = "none"]
        /\ qiter = NoIter
        /\ ret = NoRet
        /\ blob = NoBlob

\* init_state: rw.listeners.len() > 0, the loop over world.archetype_arr starts;
\* op.drow is the loop index.
InitStateBegin ==
    /\ qstate.pc = "none"
    /\ qstate' = [qstate EXCEPT !.pc = "loop"]
    /\ op' = [IdleOp EXCEPT !.kind = "init_state", !.drow = 1]
    /\ UNCHANGED <<entities, removes, cells, world, dropCount, ver, nextEnt, alive>>
    /\ UNCHANGED <<ticks, records, archetype_arr, qiter, ret, blob>>

InitStateListen ==
    /\ qstate.pc = "loop"
    /\ op.drow <= Len(archetype_arr)
    /\ archetype_arr' = [archetype_arr EXCEPT ![op.drow] = Notify_listen(@, qstate.q)]
    /\ op' = [op EXCEPT !.drow = @ + 1]
    /\ UNCHANGED <<entities, removes, cells, world, dropCount, ver, nextEnt, alive>>
    /\ UNCHANGED <<ticks, records, qstate, qiter, ret, blob>>

InitStateLoopEnd ==
    /\ qstate.pc = "loop"
    /\ op.drow > Len(archetype_arr)
    /\ qstate' = [qstate EXCEPT !.pc = "register"]
    /\ UNCHANGED tvars
    /\ UNCHANGED <<ticks, records, archetype_arr, qiter, ret, blob>>

\* world.listener_mgr.register_event, then QueryState::new.
InitStateRegister ==
    /\ qstate.pc = "register"
    /\ qstate' = [qstate EXCEPT !.pc = "ready"]
    /\ op' = IdleOp
    /\ UNCHANGED <<entities, removes, cells, world, dropCount, ver, nextEnt, alive>>
    /\ UNCHANGED <<ticks, records, archetype_arr, qiter, ret, blob>>

\* The world creates an archetype and delivers ArchetypeInit to the listeners
\* registered so far.
ListenCreateArchetype(a) ==
    /\ a \notin Created
    /\ LET ar == NewArchetype(a, IF qstate.pc = "none" THEN "before"
                                 ELSE IF qstate.pc = "ready" THEN "after" ELSE "during")
       IN archetype_arr' = Append(archetype_arr,
                                  IF qstate.pc = "ready" THEN Notify_listen(ar, qstate.q) ELSE ar)
    /\ UNCHANGED tvars
    /\ UNCHANGED <<ticks, records, qstate, qiter, ret, blob>>

\* The operation that created the archetype records its first add-tick.
ListenFirstAddTick(i) ==
    /\ i \in 1..Len(archetype_arr)
    /\ ~archetype_arr[i].ticked
    /\ archetype_arr' = [archetype_arr EXCEPT ![i] =
                            [@ EXCEPT !.ticked = TRUE,
                                       !.tick_listened = archetype_arr[i].listened]]
    /\ UNCHANGED tvars
    /\ UNCHANGED <<ticks, records, qstate, qiter, ret, blob>>

ListenAlign ==
    /\ qstate.pc = "ready"
    /\ qstate' = QueryState_align(qstate, archetype_arr)
    /\ qstate' # qstate
    /\ UNCHANGED tvars
    /\ UNCHANGED <<ticks, records, archetype_arr, qiter, ret, blob>>

NextListen ==
    \/ InitStateBegin
    \/ InitStateListen
    \/ InitStateLoopEnd
    \/ InitStateRegister
    \/ \E a \in ArIds : ListenCreateArchetype(a)
    \/ \E i \in 1..MaxEnt : ListenFirstAddTick(i)
    \/ ListenAlign

SpecListen == InitListen /\ [][NextListen]_vars

\* C7: for every archetype the query listens to, whether it exists when
\* init_state starts or is created later (also while init_state runs), the
\* records are added by Notify.listen before the creating operation records
\* its first add-tick and before an align of the query matches it.
C7_ListenedBeforeTick ==
    \A i \in 1..Len(archetype_arr) :
        LET ar == archetype_arr[i]
        IN /\ (ar.born # "before" /\ ar.ticked /\ ~archetype_filter(ar.id, qstate.q))
                 => ar.tick_listened
           /\ (qstate.pc = "ready" /\ ~archetype_filter(ar.id, qstate.q)) => ar.listened
           /\ ar.id \in Matched(qstate) => ar.listened


\* -------------------------------------------------------------- SpecBlob
\* One Blob: a root Vec<u8> and the buckets of an Arr<u8>.  A byte is <<row, j>>
\* (byte j of the value written to the row) or Junk.  An address is a region
\* (the root's current allocation or a bucket number) and a byte offset; a
\* reallocation of the root gives it a new region.  Buckets of the Arr hold
\* Skip, 2 * Skip, 4 * Skip, ... cells.
Junk == <<-1, -1>>
VecRegion(bl) == -1 - bl.vec_gen
BUCKETS == MaxBlobRows + 1
Location_bucket_len(b) == Skip * Pow(2, b)
Location_index(b, entry) == Skip * (Pow(2, b) - 1) + entry

RECURSIVE LocBucket(_, _)
LocBucket(i, b) == IF i < Location_index(b + 1, 0) THEN b ELSE LocBucket(i, b + 1)

Location_of(i) ==
    [bucket |-> LocBucket(i, 0), entry |-> i - Location_index(LocBucket(i, 0), 0),
     len |-> Location_bucket_len(LocBucket(i, 0))]

RECURSIVE Fill(_, _)
Fill(n, x) == IF n <= 0 THEN <<>> ELSE Append(Fill(n - 1, x), x)

RECURSIVE RowBytes(_, _)
RowBytes(row, n) == IF n = 0 THEN <<>> ELSE Append(RowBytes(row, n - 1), <<row, n - 1>>)

WriteAt(seq, off, bytes) ==
    SubSeq(seq, 1, off) \o bytes \o SubSeq(seq, off + Len(bytes) + 1, Len(seq))
ReadAt(seq, off, n) == SubSeq(seq, off + 1, off + n)

Blob_new(mem_size) ==
    [mem_size |-> mem_size, vec |-> <<>>, vec_gen |-> 0, vec_capacity |-> 0,
     arr |-> [b \in 0..(BUCKETS - 1) |-> <<>>],
     len |-> 0, pending |-> {}, held |-> {},
     last |-> [len |-> 0, additional |-> 0, merged |-> FALSE]]

\* Blob::get: the address of the row's cell.
Blob_get(bl, row) ==
    IF row < bl.vec_capacity THEN [reg |-> VecRegion(bl), off |-> row * bl.mem_size]
    ELSE LET loc == Location_of(row - bl.vec_capacity)
         IN [reg |-> loc.bucket, off |-> loc.entry * bl.mem_size]

\* Mutant: a load past the root grows the root instead of using the buckets.
Blob_load_grow(bl, row) ==
    IF row < bl.vec_capacity THEN [bl |-> bl, addr |-> Blob_get(bl, row)]
    ELSE [bl |-> [bl EXCEPT !.vec = @ \o Fill((row + 1) * bl.mem_size - Len(@), Junk),
                            !.vec_gen = @ + 1,
                            !.vec_capacity = row + 1],
          addr |-> [reg |-> VecRegion(bl) - 1, off |-> row * bl.mem_size]]

\* Blob::load: as get, and arr.load_alloc allocates the bucket if it is null.
Blob_load(bl, row) ==
    IF row < bl.vec_capacity THEN [bl |-> bl, addr |-> Blob_get(bl, row)]
    ELSE LET loc == Location_of(row - bl.vec_capacity)
         IN [bl |-> IF bl.arr[loc.bucket] = <<>>
                    THEN [bl EXCEPT !.arr[loc.bucket] = Fill(loc.len * bl.mem_size, Junk)]
                    ELSE bl,
             addr |-> [reg |-> loc.bucket, off |-> loc.entry * bl.mem_size]]

Region(bl, reg) ==
    IF reg >= 0 THEN bl.arr[reg] ELSE IF reg = VecRegion(bl) THEN bl.vec ELSE <<>>
AddrValid(bl, addr) ==
    /\ Region(bl, addr.reg) # <<>>
    /\ addr.off + bl.mem_size <= Len(Region(bl, addr.reg))
ReadCell(bl, addr) == ReadAt(Region(bl, addr.reg), addr.off, bl.mem_size)

\* ptr.write through an address a load returned.
WriteCell(bl, addr, row) ==
    IF addr.reg = VecRegion(bl)
    THEN [bl EXCEPT !.vec = WriteAt(@, addr.off, RowBytes(row, bl.mem_size))]
    ELSE [bl EXCEPT !.arr[addr.reg] = WriteAt(@, addr.off, RowBytes(row, bl.mem_size))]

\* Vec::reserve(n) on a vector of length len: the capacity afterwards, slack
\* being what the allocator hands back above the request.
Vec_reserve(len, capacity, n, slack) ==
    IF len + n > capacity THEN len + n + slack ELSE capacity

Blob_vec_reserve(bl, additional, slack) ==
    LET capacity == Vec_reserve(Len(bl.vec), Len(bl.vec), additional * bl.mem_size, slack)
    IN [bl EXCEPT !.vec = @ \o Fill(capacity - Len(@), Junk),
                  !.vec_gen = IF capacity # Len(bl.vec) THEN @ + 1 ELSE @,
                  !.vec_capacity = capacity \div bl.mem_size]

Saturating_sub(a, b) == IF a > b THEN a - b ELSE 0

\* The loop `for mut v in arr.into_iter()` of Blob::reserve.
RECURSIVE AppendBuckets(_, _, _, _)
AppendBuckets(vec, arr, b, raw_len) ==
    IF b >= BUCKETS THEN vec
    ELSE IF Saturating_sub(raw_len, Len(arr[b])) = 0 THEN vec \o arr[b]
    ELSE AppendBuckets(vec \o arr[b], arr, b + 1, Saturating_sub(raw_len, Len(arr[b])))

\* Blob::reserve for mem_size > 0.
Blob_reserve(bl, len, additional, slack) ==
    IF len <= bl.vec_capacity THEN Blob_vec_reserve(bl, additional, slack)
    ELSE LET loc == Location_of(len - bl.vec_capacity)
             raw_len0 == Location_index(loc.bucket + 1, 0) * bl.mem_size
             empty == Len(bl.vec) = 0
             raw_len == IF empty THEN Saturating_sub(raw_len0, Len(bl.arr[0])) ELSE raw_len0
             vec1 == IF empty THEN bl.arr[0] ELSE bl.vec
             arr1 == [b \in 0..(BUCKETS - 1) |-> IF empty /\ b = 0 THEN <<>> ELSE bl.arr[b]]
             capacity == Vec_reserve(Len(vec1), Len(vec1),
                                     raw_len + additional * bl.mem_size, slack)
             vec2 == AppendBuckets(vec1, arr1, 0, raw_len)
         IN [bl EXCEPT !.vec = vec2 \o Fill(capacity - Len(vec2), Junk),
                       !.vec_gen = @ + 1,
                       !.vec_capacity = capacity \div bl.mem_size,
                       !.arr = [b \in 0..(BUCKETS - 1) |-> <<>>]]

InitBlob ==
    \E ms \in 1..MaxMemSize :
        /\ entities = [a \in ArIds |-> <<>>]
        /\ removes = [a \in ArIds |-> <<>>]
        /\ cells = [a \in ArIds |-> [c2 \in Comps |-> [r \in Rows |-> NoVal]]]
        /\ world = [e \in Entities |-> NoAddr]
        /\ dropCount = [v \in Vals |-> 0]
        /\ ver = [e \in Entities |-> [c2 \in Comps |-> 0]]
        /\ op = IdleOp
        /\ nextEnt = 1
        /\ alive = [a \in ArIds |-> TRUE]
        /\ ticks = [a \in ArIds |-> [r \in Rows |-> 0]]
        /\ records = [a \in ArIds |-> <<<<>>, <<>>>>]
        /\ archetype_arr = <<>>
        /\ qstate = NoQuery
        /\ qiter = NoIter
        /\ ret = NoRet
        /\ blob = Blob_new(ms)

\* A writer takes the next row and loads its cell (Column::write, first half).
BlobLoad ==
    /\ blob.len < MaxBlobRows
    /\ LET r == Blob_load(blob, blob.len)
       IN blob' = [r.bl EXCEPT !.len = @ + 1,
                               !.pending = @ \cup {[row |-> blob.len, addr |-> r.addr]}]
    /\ UNCHANGED tvars
    /\ UNCHANGED <<ticks, records, archetype_arr, qstate, qiter, ret>>

\* The writer writes the value through the pointer (Column::write, second
\* half) and keeps the pointer; bytes is what the cell holds from then on.
BlobWrite(p) ==
    /\ p \in blob.pending
    /\ AddrValid(blob, p.addr)
    /\ blob' = [WriteCell(blob, p.addr, p.row) EXCEPT
                    !.pending = @ \ {p},
                    !.held = @ \cup {[row |-> p.row, addr |-> p.addr,
                                      bytes |-> RowBytes(p.row, blob.mem_size)]}]
    /\ UNCHANGED tvars
    /\ UNCHANGED <<ticks, records, archetype_arr, qstate, qiter, ret>>

\* A reader gets the pointer of a written row and keeps it.
BlobGet(row) ==
    /\ row < blob.len
    /\ \A p \in blob.pending : p.row # row
    /\ LET addr == Blob_get(blob, row)
       IN /\ AddrValid(blob, addr)
          /\ [row |-> row, addr |-> addr, bytes |-> ReadCell(blob, addr)] \notin blob.held
          /\ blob' = [blob EXCEPT !.held = @ \cup {[row |-> row, addr |-> addr,
                                                    bytes |-> ReadCell(blob, addr)]}]
    /\ UNCHANGED tvars
    /\ UNCHANGED <<ticks, records, archetype_arr, qstate, qiter, ret>>

\* Compaction / growth at a quiescent point: Column::reserve(len, additional).
\* It ends the life of every pointer handed out before.
BlobReserve(additional, slack) ==
    /\ blob.pending = {}
    /\ blob.len > blob.vec_capacity \/ (additional > 0 /\ blob.vec_capacity < MaxBlobRows)
    /\ blob' = [Blob_reserve(blob, blob.len, additional, slack) EXCEPT
                    !.held = {},
                    !.last = [len |-> blob.len, additional |-> additional,
                              merged |-> blob.len > blob.vec_capacity]]
    /\ UNCHANGED tvars
    /\ UNCHANGED <<ticks, records, archetype_arr, qstate, qiter, ret>>

NextBlob ==
    \/ BlobLoad
    \/ \E p \in blob.pending : BlobWrite(p)
    \/ \E row \in 0..(MaxBlobRows - 1) : BlobGet(row)
    \/ \E additional \in 0..MaxAdd : \E slack \in 0..MaxSlack : BlobReserve(additional, slack)

SpecBlob == InitBlob /\ [][NextBlob]_vars

\* C8: between compactions the address Blob.get / Blob.load returned for a row
\* stays the row's address and stays valid, and the cell's contents are
\* unchanged, also when a load of another row allocates a new tail bucket.
C8_PointersStable ==
    /\ \A h \in blob.held :
          /\ AddrValid(blob, h.addr)
          /\ Blob_get(blob, h.row) = h.addr
          /\ ReadCell(blob, h.addr) = h.bytes
    /\ \A p \in blob.pending :
          /\ AddrValid(blob, p.addr)
          /\ Blob_get(blob, p.row) = p.addr

\* A pointer into bucket 0 is held while bucket 1 has been allocated by a load
\* of another row that is still to be written.
C8_Witness ==
    /\ \E h \in blob.held : h.addr.reg = 0
    /\ \E p \in blob.pending : p.addr.reg = 1 /\ p.addr.off = 0

\* C9: after Blob.reserve(len, additional) has merged the tail buckets into the
\* root, every row r < len is at root byte offset r * mem_size with the bytes
\* written to it, and the root holds at least len + additional cells, for
\* every component size and every capacity the allocator hands back.
C9_MergedLayout ==
    blob.last.merged =>
        /\ blob.vec_capacity >= blob.last.len + blob.last.additional
        /\ \A r \in 0..(blob.last.len - 1) :
              /\ Blob_get(blob, r) = [reg |-> VecRegion(blob), off |-> r * blob.mem_size]
              /\ ReadAt(blob.vec, r * blob.mem_size, blob.mem_size) = RowBytes(r, blob.mem_size)


\* -------------------------------------------------------------- SpecMark
\* mark_remove called on the table and through the archetype, on archetypes of
\* world index 0, 1 and 2.  Rows are built with Table::alloc and Table::set,
\* which Archetype exposes through Deref for every index.
WorldArIds == {0} \cup ArIds

InitMark ==
    /\ entities = [a \in WorldArIds |-> <<>>]
    /\ removes = [a \in WorldArIds |-> <<>>]
    /\ cells = [a \in WorldArIds |-> [c \in Comps |-> [r \in Rows |-> NoVal]]]
    /\ world = [e \in Entities |-> NoAddr]
    /\ dropCount = [v \in Vals |-> 0]
    /\ ver = [e \in Entities |-> [c \in Comps |-> 0]]
    /\ op = IdleOp
    /\ nextEnt = 1
    /\ alive = [a \in WorldArIds |-> TRUE]
    /\ QueryUnused

\* alloc, write of the components, set.
MarkInsert(a) ==
    /\ nextEnt <= MaxEnt
    /\ Table_len(a) < MaxRows
    /\ entities' = [entities EXCEPT ![a] = SetAt(Table_alloc(a), Table_len(a), nextEnt)]
    /\ cells' = [cells EXCEPT ![a] =
                    [c \in Comps |-> IF c \in ArComps(a)
                                     THEN [@[c] EXCEPT ![Table_len(a)] = NewVal(nextEnt, c)]
                                     ELSE @[c]]]
    /\ ver' = [ver EXCEPT ![nextEnt] =
                    [c \in Comps |-> IF c \in ArComps(a) THEN @[c] + 1 ELSE @[c]]]
    /\ world' = [world EXCEPT ![nextEnt] = [ar |-> a, row |-> Table_len(a)]]
    /\ nextEnt' = nextEnt + 1
    /\ ret' = NoRet
    /\ UNCHANGED <<removes, dropCount, op, alive>>
    /\ UNCHANGED <<ticks, records, archetype_arr, qstate, qiter, blob>>

\* ret keeps the returned entity, and the slot and the length of removes
\* before the call.
MarkResult(via, a, row, r) ==
    [kind |-> "mark", via |-> via, ar |-> a, row |-> row, e |-> r.e,
     before |-> Table_get(a, row), queued |-> Len(removes[a])]

MarkTable(a, row) ==
    /\ row < Table_len(a)
    /\ LET r == Table_mark_remove(a, row)
       IN /\ entities' = [entities EXCEPT ![a] = r.ents]
          /\ removes' = [removes EXCEPT ![a] = r.rem]
          /\ ret' = MarkResult("table", a, row, r)
    /\ UNCHANGED <<cells, world, dropCount, ver, op, nextEnt, alive>>
    /\ UNCHANGED <<ticks, records, archetype_arr, qstate, qiter, blob>>

MarkArchetype(a, row) ==
    /\ row < Table_len(a)
    /\ LET r == Archetype_mark_remove(a, row)
       IN /\ entities' = [entities EXCEPT ![a] = r.ents]
          /\ removes' = [removes EXCEPT ![a] = r.rem]
          /\ ret' = MarkResult("archetype", a, row, r)
    /\ UNCHANGED <<cells, world, dropCount, ver, op, nextEnt, alive>>
    /\ UNCHANGED <<ticks, records, archetype_arr, qstate, qiter, blob>>

NextMark ==
    \/ \E a \in WorldArIds : MarkInsert(a)
    \/ \E a \in WorldArIds : \E row \in Rows : MarkTable(a, row)
    \/ \E a \in WorldArIds : \E row \in Rows : MarkArchetype(a, row)

SpecMark == InitMark /\ [][NextMark]_vars

\* What mark_remove does to a row whose entity is non-null.
Marked ==
    /\ ret.e = ret.before
    /\ Table_get(ret.ar, ret.row) = Null
    /\ removes[ret.ar] # <<>>
    /\ Len(removes[ret.ar]) = ret.queued + 1
    /\ removes[ret.ar][Len(removes[ret.ar])] = ret.row
    /\ \A v \in Vals : dropCount[v] = 0

Threads == {1, 2}
NoRow == -1

InitAlloc ==
    /\ entities = [a \in ArIds |-> <<>>]
    /\ removes = [a \in ArIds |-> <<>>]
    /\ cells = [a \in ArIds |-> [c \in Comps |-> [r \in 0..(MaxLen - 1) |-> NoVal]]]
    /\ world = [e \in 1..MaxLen |-> NoAddr]
    /\ dropCount = [v \in ((1..MaxLen) \X Comps \X {0}) \cup {NoVal} |-> 0]
    /\ ver = [e \in 1..MaxLen |-> [c \in Comps |-> 0]]
    /\ op = IdleOp
    /\ nextEnt = 1
    /\ alive = [a \in ArIds |-> TRUE]
    /\ ticks = [a \in ArIds |-> [r \in Rows |-> 0]]
    /\ records = [a \in ArIds |-> <<<<>>, <<>>>>]
    /\ archetype_arr = <<>>
    /\ qstate = NoQuery
    /\ qiter = NoIter
    /\ ret = [kind |-> "alloc", rows |-> <<>>, pend |-> <<NoRow, NoRow>>, e |-> <<Null, Null>>]
    /\ blob = NoBlob

\* Table::alloc by system t: the row returned is the index of the new slot.
AllocRow(t) ==
    /\ ret.pend[t] = NoRow
    /\ nextEnt <= MaxLen
    /\ LET ents == Table_alloc(1)
           row == Len(ents) - 1
       IN /\ entities' = [entities EXCEPT ![1] = ents]
          /\ ret' = [ret EXCEPT !.rows = Append(@, row), !.pend[t] = row, !.e[t] = nextEnt]
    /\ nextEnt' = nextEnt + 1
    /\ UNCHANGED <<removes, cells, world, dropCount, ver, op, alive>>
    /\ UNCHANGED <<ticks, records, archetype_arr, qstate, qiter, blob>>

\* The components and the world's address are written, then Table::set.
AllocSet(t) ==
    /\ ret.pend[t] # NoRow
    /\ cells' = [cells EXCEPT ![1]["A"][ret.pend[t]] = <<ret.e[t], "A", 0>>]
    /\ ver' = [ver EXCEPT ![ret.e[t]]["A"] = 1]
    /\ world' = [world EXCEPT ![ret.e[t]] = [ar |-> 1, row |-> ret.pend[t]]]
    /\ entities' = [entities EXCEPT ![1] = Table_set(1, ret.pend[t], ret.e[t])]
    /\ ret' = [ret EXCEPT !.pend[t] = NoRow, !.e[t] = Null]
    /\ UNCHANGED <<removes, dropCount, op, nextEnt, alive>>
    /\ UNCHANGED <<ticks, records, archetype_arr, qstate, qiter, blob>>

AllocDestroy(row) ==
    /\ row < Table_len(1)
    /\ Table_get(1, row) # Null
    /\ LET r == Table_destroy(1, row)
       IN /\ entities' = [entities EXCEPT ![1] = r.ents]
          /\ removes' = [removes EXCEPT ![1] = r.rem]
          /\ dropCount' = r.dc
          /\ world' = [world EXCEPT ![r.e] = NoAddr]
    /\ UNCHANGED <<cells, ver, op, nextEnt, alive>>
    /\ UNCHANGED qvars

AllocSettle ==
    /\ \A t \in Threads : ret.pend[t] = NoRow
    /\ removes[1] # <<>>
    /\ LET r == Table_settle(1)
       IN /\ entities' = [entities EXCEPT ![1] = r.ents]
          /\ removes' = [removes EXCEPT ![1] = r.rem]
          /\ cells' = [cells EXCEPT ![1] = r.cols]
          /\ world' = r.w
    /\ ret' = [ret EXCEPT !.rows = <<>>]
    /\ UNCHANGED <<dropCount, ver, op, nextEnt, alive>>
    /\ UNCHANGED <<ticks, records, archetype_arr, qstate, qiter, blob>>

NextAlloc ==
    \/ \E t \in Threads : AllocRow(t)
    \/ \E t \in Threads : AllocSet(t)
    \/ \E row \in 0..(MaxLen - 1) : AllocDestroy(row)
    \/ AllocSettle

SpecAlloc == InitAlloc /\ [][NextAlloc]_vars

\* C12: Table.alloc returns a fresh row whose entity slot is null; the rows
\* returned between two compactions are strictly increasing, and two
\* concurrent alloc calls never return the same row.
C12_AllocFresh ==
    /\ \A i \in 1..Len(ret.rows) : \A j \in 1..Len(ret.rows) :
          i < j => ret.rows[i] < ret.rows[j]
    /\ \A t \in Threads : ret.pend[t] # NoRow =>
          /\ ret.pend[t] < Table_len(1)
          /\ Table_get(1, ret.pend[t]) = Null
          /\ ret.pend[t] \notin SeqToSet(removes[1])
    /\ (ret.pend[1] # NoRow /\ ret.pend[2] # NoRow) => ret.pend[1] # ret.pend[2]

\* Both systems hold an allocated row while an earlier row is already removed.
C12_Witness ==
    /\ ret.pend[1] # NoRow /\ ret.pend[2] # NoRow
    /\ removes[1] # <<>>
    /\ Len(ret.rows) >= 3


\* ------------------------------------------------------------- SpecAlter
\* Archetype::alter1, ArchetypeInfo::new and Table::new as functions of their
\* arguments.  A component is named by its ComponentIndex; tid gives each
\* component the integer of its TypeId, IdBits wide.
MaxOps == 3
IdBits == 2
ComponentIndexes == 0..2
ComponentIndex_null == -1
TypeIdInts == 1..(Pow(2, IdBits) - 1)

\* u128 ^ u128, on IdBits bits.
RECURSIVE BitXor(_, _)
BitXor(a, b) ==
    IF a = 0 THEN b
    ELSE IF b = 0 THEN a
    ELSE (((a % 2) + (b % 2)) % 2) + 2 * BitXor(a \div 2, b \div 2)

\* ComponentInfo::id
ComponentInfo_id(tid, c) == tid[c]

\* ComponentInfo::calc_id
RECURSIVE ComponentInfo_calc_id(_, _)
ComponentInfo_calc_id(tid, vec) ==
    IF vec = <<>> THEN 0
    ELSE BitXor(ComponentInfo_calc_id(tid, SubSeq(vec, 1, Len(vec) - 1)),
                ComponentInfo_id(tid, vec[Len(vec)]))

\* The id loop of ArchetypeInfo::new, from the first component on.
RECURSIVE XorFrom(_, _, _)
XorFrom(tid, cs, id) ==
    IF cs = <<>> THEN id
    ELSE XorFrom(tid, Tail(cs), BitXor(id, ComponentInfo_id(tid, Head(cs))))

\* Mutant: the ids are added instead of xored.
RECURSIVE SumFrom(_, _, _)
SumFrom(tid, cs, id) ==
    IF cs = <<>> THEN id
    ELSE SumFrom(tid, Tail(cs), (id + ComponentInfo_id(tid, Head(cs))) % Pow(2, IdBits))

ArchetypeInfo_new_sum(tid, sorted_components) ==
    [id |-> SumFrom(tid, sorted_components, 0), sorted_components |-> sorted_components]

\* ArchetypeInfo::new
ArchetypeInfo_new(tid, sorted_components) ==
    [id |-> XorFrom(tid, sorted_components, 0), sorted_components |-> sorted_components]

\* sort_unstable_by(index)
RECURSIVE InsertIndex(_, _)
InsertIndex(s, x) ==
    IF s = <<>> THEN <<x>>
    ELSE IF x <= Head(s) THEN <<x>> \o s
    ELSE <<Head(s)>> \o InsertIndex(Tail(s), x)

RECURSIVE SortByIndex(_)
SortByIndex(s) == IF s = <<>> THEN <<>> ELSE InsertIndex(SortByIndex(Tail(s)), Head(s))

\* ArchetypeInfo::sort
ArchetypeInfo_sort(tid, components) == ArchetypeInfo_new(tid, SortByIndex(components))

\* The lists alter1 fills, with the column cursor.
AlterStart == [column_index |-> 0, result |-> <<>>, adding |-> <<>>,
               moving |-> <<>>, removing |-> <<>>]

\* Mutant: the adding and the moving list are mixed up.
AlterPush_swapped(st, ci, res, adds, moves, rems) ==
    [column_index |-> ci, result |-> st.result \o res, adding |-> st.adding \o moves,
     moving |-> st.moving \o adds, removing |-> st.removing \o rems]

AlterPush(st, ci, res, adds, moves, rems) ==
    [column_index |-> ci, result |-> st.result \o res, adding |-> st.adding \o adds,
     moving |-> st.moving \o moves, removing |-> st.removing \o rems]

\* The inner loop of alter1 for one op <<index, add>>.
RECURSIVE alter1_loop(_, _, _, _, _)
alter1_loop(columns, index, add, existed_adding_is_move, st) ==
    IF st.column_index >= Len(columns)
    THEN IF add THEN AlterPush(st, st.column_index, <<index>>, <<index>>, <<>>, <<>>) ELSE st
    ELSE LET c == columns[st.column_index + 1]
         IN IF c > index
            THEN IF add THEN AlterPush(st, st.column_index, <<index>>, <<index>>, <<>>, <<>>)
                 ELSE st
            ELSE IF c < index
            THEN alter1_loop(columns, index, add, existed_adding_is_move,
                             AlterPush(st, st.column_index + 1, <<c>>, <<>>, <<c>>, <<>>))
            ELSE IF add
            THEN IF existed_adding_is_move
                 THEN AlterPush(st, st.column_index + 1, <<c>>, <<>>, <<c>>, <<>>)
                 ELSE AlterPush(st, st.column_index + 1, <<c>>, <<c>>, <<>>, <<>>)
            ELSE AlterPush(st, st.column_index + 1, <<>>, <<>>, <<>>, <<c>>)

\* Mutant: the for loop without the pre_index test.
RECURSIVE alter1_ops_nodedup(_, _, _, _, _, _)
alter1_ops_nodedup(columns, ops, k, pre_index, existed_adding_is_move, st) ==
    IF k > Len(ops) THEN st
    ELSE alter1_ops_nodedup(columns, ops, k + 1, ops[k][1], existed_adding_is_move,
                            alter1_loop(columns, ops[k][1], ops[k][2], existed_adding_is_move, st))

\* The for loop over sorted_add_removes, from op k on.
RECURSIVE alter1_ops(_, _, _, _, _, _)
alter1_ops(columns, ops, k, pre_index, existed_adding_is_move, st) ==
    IF k > Len(ops) THEN st
    ELSE IF pre_index = ops[k][1]
    THEN alter1_ops(columns, ops, k + 1, pre_index, existed_adding_is_move, st)
    ELSE alter1_ops(columns, ops, k + 1, ops[k][1], existed_adding_is_move,
                    alter1_loop(columns, ops[k][1], ops[k][2], existed_adding_is_move, st))

\* Mutant: the columns after the last op are left out.
alter1_rest_none(columns, st) == st

\* The trailing while loop: the remaining columns move.
RECURSIVE alter1_rest(_, _)
alter1_rest(columns, st) ==
    IF st.column_index >= Len(columns) THEN st
    ELSE alter1_rest(columns, AlterPush(st, st.column_index + 1,
                                        <<columns[st.column_index + 1]>>, <<>>,
                                        <<columns[st.column_index + 1]>>, <<>>))

\* Archetype::alter1
alter1(tid, columns, sorted_add_removes, existed_adding_is_move) ==
    LET st == alter1_rest(columns, alter1_ops(columns, sorted_add_removes, 1,
                                               ComponentIndex_null, existed_adding_is_move,
                                               AlterStart))
    IN [info |-> ArchetypeInfo_new(tid, st.result), adding |-> st.adding,
        moving |-> st.moving, removing |-> st.removing]

\* Mutant: a table whose bit set misses its last column.
Table_new_short(sorted_columns) ==
    [sorted_columns |-> sorted_columns,
     bit_set |-> [i \in 0..(IF sorted_columns = <<>> THEN -1
                            ELSE sorted_columns[Len(sorted_columns)])
                  |-> \E k \in 1..(Len(sorted_columns) - 1) : sorted_columns[k] = i]]

\* Table::new: the bit set has one bit per index up to the last column's.
Table_new(sorted_columns) ==
    [sorted_columns |-> sorted_columns,
     bit_set |-> [i \in 0..(IF sorted_columns = <<>> THEN -1
                            ELSE sorted_columns[Len(sorted_columns)])
                  |-> \E k \in 1..Len(sorted_columns) : sorted_columns[k] = i]]

\* Table::contains; FixedBitSet::contains is false past the capacity.
Table_contains(t, index) == index \in DOMAIN t.bit_set /\ t.bit_set[index]


\* The TypeIds of the components: distinct, never zero.
TypeIdMaps ==
    {f \in [ComponentIndexes -> TypeIdInts] :
        \A c \in ComponentIndexes : \A d \in ComponentIndexes : c # d => f[c] # f[d]}

\* alter1 never reads a TypeId and the id is a xor over a set of components, so
\* the alter specification takes the TypeId maps up to renaming the components.
AlterTypeIdMaps ==
    {f \in TypeIdMaps : \A c \in ComponentIndexes : \A d \in ComponentIndexes :
        c < d => f[c] < f[d]}

\* Op lists in ascending ComponentIndex order, the same index allowed again.
SortedOps ==
    UNION {{o \in [1..k -> ComponentIndexes \X BOOLEAN] :
               \A i \in 1..(k - 1) : o[i][1] <= o[i + 1][1]} : k \in 0..MaxOps}

AlterInput(tid, src, ops, flag) ==
    [kind |-> "source", tid |-> tid, src |-> src, table |-> Table_new(src.sorted_components),
     ops |-> ops, existed_adding_is_move |-> flag]

\* An archetype made from a bundle's components in any order, and an alter on it.
InitAlter ==
    /\ entities = [a \in ArIds |-> <<>>]
    /\ removes = [a \in ArIds |-> <<>>]
    /\ cells = [a \in ArIds |-> [c \in Comps |-> [r \in Rows |-> NoVal]]]
    /\ world = [e \in Entities |-> NoAddr]
    /\ dropCount = [v \in Vals |-> 0]
    /\ ver = [e \in Entities |-> [c \in Comps |-> 0]]
    /\ op = IdleOp
    /\ nextEnt = 1
    /\ alive = [a \in ArIds |-> TRUE]
    /\ ticks = [a \in ArIds |-> [r \in Rows |-> 0]]
    /\ records = [a \in ArIds |-> <<<<>>, <<>>>>]
    /\ archetype_arr = <<>>
    /\ qstate = NoQuery
    /\ qiter = NoIter
    /\ blob = NoBlob
    /\ \E tid \in AlterTypeIdMaps : \E S \in SUBSET ComponentIndexes : \E p \in Perms(S) :
       \E ops \in SortedOps : \E flag \in BOOLEAN :
          ret = AlterInput(tid, ArchetypeInfo_sort(tid, p), ops, flag)

\* Archetype::alter1 on the source archetype.
Alter1 ==
    /\ ret.kind = "source"
    /\ ret' = [kind |-> "alter1", tid |-> ret.tid, src |-> ret.src, table |-> ret.table,
               ops |-> ret.ops, existed_adding_is_move |-> ret.existed_adding_is_move,
               dst |-> alter1(ret.tid, ret.src.sorted_components, ret.ops,
                              ret.existed_adding_is_move)]
    /\ UNCHANGED <<tvars, ticks, records, archetype_arr, qstate, qiter, blob>>

\* The destination archetype is created: Table::new on its sorted components.
AlterTableNew ==
    /\ ret.kind = "alter1"
    /\ ret' = [kind |-> "table", tid |-> ret.tid, src |-> ret.src, table |-> ret.table,
               ops |-> ret.ops, existed_adding_is_move |-> ret.existed_adding_is_move,
               dst |-> ret.dst, dst_table |-> Table_new(ret.dst.info.sorted_components)]
    /\ UNCHANGED <<tvars, ticks, records, archetype_arr, qstate, qiter, blob>>

\* The destination becomes the source of the next alter, of one op.
AlterNext ==
    /\ ret.kind = "table"
    /\ \E o \in ComponentIndexes \X BOOLEAN : \E flag \in BOOLEAN :
          ret' = [kind |-> "source", tid |-> ret.tid, src |-> ret.dst.info,
                  table |-> ret.dst_table, ops |-> <<o>>, existed_adding_is_move |-> flag]
    /\ UNCHANGED <<tvars, ticks, records, archetype_arr, qstate, qiter, blob>>

NextAlter == Alter1 \/ AlterTableNew \/ AlterNext

SpecAlter == InitAlter /\ [][NextAlter]_vars

Altered == ret.kind \in {"alter1", "table"}
SrcSet == SeqToSet(ret.src.sorted_components)
DstSet == SeqToSet(ret.dst.info.sorted_components)
StrictlyAscending(s) == \A i \in 1..(Len(s) - 1) : s[i] < s[i + 1]
\* The ops alter1 applies: the first op of each ComponentIndex.
FirstOp(k) == \A j \in 1..(k - 1) : ret.ops[j][1] # ret.ops[k][1]
OpIndexes(add, first) ==
    {ret.ops[k][1] : k \in {j \in 1..Len(ret.ops) : ret.ops[j][2] = add /\ (first => FirstOp(j))}}

\* C13 as stated: the destination is (source + add-op components) minus the
\* source components a remove op names, strictly ascending.
C13_AnyOpDestination ==
    Altered =>
        /\ DstSet = (SrcSet \cup OpIndexes(TRUE, FALSE)) \ (SrcSet \cap OpIndexes(FALSE, FALSE))
        /\ StrictlyAscending(ret.dst.info.sorted_components)

\* C13: with both lists sorted, the destination is (source + components whose
\* first op is an add) minus the components whose first op is a remove, and it
\* is strictly ascending by ComponentIndex.
C13_AlterDestination ==
    Altered =>
        /\ DstSet = (SrcSet \cup OpIndexes(TRUE, TRUE)) \ OpIndexes(FALSE, TRUE)
        /\ StrictlyAscending(ret.dst.info.sorted_components)

\* An absent component is added, a present one removed, and one component has
\* a remove op followed by an add op.
C13_Witness ==
    /\ Altered
    /\ OpIndexes(TRUE, TRUE) \ SrcSet # {}
    /\ \E k \in 1..(Len(ret.ops) - 1) :
          /\ ret.ops[k][1] = ret.ops[k + 1][1]
          /\ ~ret.ops[k][2] /\ ret.ops[k + 1][2]
          /\ ret.ops[k][1] \in SrcSet


OpIndex(k) == ret.ops[k][1]
OpAdd(k) == ret.ops[k][2]
Adding == SeqToSet(ret.dst.adding)
Moving == SeqToSet(ret.dst.moving)
Removing == SeqToSet(ret.dst.removing)
NoRepeat(s) == Cardinality(SeqToSet(s)) = Len(s)

\* C14 as stated, for every op of the list.
C14_AnyOpPlaced ==
    Altered =>
        /\ \A k \in 1..Len(ret.ops) :
              /\ (OpAdd(k) /\ OpIndex(k) \notin SrcSet) => OpIndex(k) \in Adding
              /\ (OpAdd(k) /\ OpIndex(k) \in SrcSet) =>
                    IF ret.existed_adding_is_move THEN OpIndex(k) \in Moving
                    ELSE OpIndex(k) \in Adding
              /\ (~OpAdd(k) /\ OpIndex(k) \in SrcSet) => OpIndex(k) \in Removing
        /\ \A c \in SrcSet \ (OpIndexes(TRUE, FALSE) \cup OpIndexes(FALSE, FALSE)) :
              c \in Moving

\* C14: the first op of a component decides its list: an add of an absent
\* component goes to adding; an add of a present one to moving if
\* existed_adding_is_move and to adding otherwise; a remove of a present one to
\* removing; a source column no op names goes to moving.  The lists hold
\* nothing else, and later ops of the same component change nothing.
C14_FirstOpPlaced ==
    Altered =>
        /\ Adding = {c \in OpIndexes(TRUE, TRUE) :
                        c \notin SrcSet \/ ~ret.existed_adding_is_move}
        /\ Moving = {c \in OpIndexes(TRUE, TRUE) :
                        c \in SrcSet /\ ret.existed_adding_is_move}
                    \cup (SrcSet \ (OpIndexes(TRUE, TRUE) \cup OpIndexes(FALSE, TRUE)))
        /\ Removing = OpIndexes(FALSE, TRUE) \cap SrcSet
        /\ NoRepeat(ret.dst.adding) /\ NoRepeat(ret.dst.moving) /\ NoRepeat(ret.dst.removing)

\* An add of a present component that moves, a remove of a present one, a
\* column no op names, and an add op that is skipped.
C14_Witness ==
    /\ Altered
    /\ ret.existed_adding_is_move
    /\ OpIndexes(TRUE, TRUE) \cap SrcSet # {}
    /\ Removing # {}
    /\ SrcSet \ (OpIndexes(TRUE, FALSE) \cup OpIndexes(FALSE, FALSE)) # {}
    /\ \E k \in 1..Len(ret.ops) : OpAdd(k) /\ ~FirstOp(k)

\* The op list without the ops that repeat the ComponentIndex before them.
RECURSIVE FirstOfRuns(_)
FirstOfRuns(ops) ==
    IF Len(ops) <= 1 THEN ops
    ELSE IF ops[Len(ops)][1] = ops[Len(ops) - 1][1]
    THEN FirstOfRuns(SubSeq(ops, 1, Len(ops) - 1))
    ELSE Append(FirstOfRuns(SubSeq(ops, 1, Len(ops) - 1)), ops[Len(ops)])

Bit(n, b) == (n \div Pow(2, b)) % 2
\* id is the xor of the ids of cs: bit by bit, the parity of the ids having it.
IsXorOf(id, tid, cs) ==
    /\ id < Pow(2, IdBits)
    /\ \A b \in 0..(IdBits - 1) :
          Bit(id, b) = Cardinality({k \in 1..Len(cs) : Bit(tid[cs[k]], b) = 1}) % 2

\* C15: of consecutive ops with the same ComponentIndex only the first is
\* applied, whatever the flags of the others: the result is that of the list
\* without them.  The destination id is the xor of the ids of the resulting
\* components.
C15_DuplicateOpsSkipped ==
    Altered =>
        /\ ret.dst = alter1(ret.tid, ret.src.sorted_components, FirstOfRuns(ret.ops),
                            ret.existed_adding_is_move)
        /\ \A k \in 1..Len(ret.ops) :
              ~FirstOp(k) =>
                 (OpIndex(k) \in DstSet <=>
                     \E j \in 1..(k - 1) :
                        FirstOp(j) /\ OpIndex(j) = OpIndex(k) /\ OpAdd(j))
        /\ IsXorOf(ret.dst.info.id, ret.tid, ret.dst.info.sorted_components)

\* A present component with an add op and then a remove op, which is skipped.
C15_Witness ==
    /\ Altered
    /\ \E k \in 1..(Len(ret.ops) - 1) :
          /\ OpIndex(k) = OpIndex(k + 1)
          /\ OpAdd(k) /\ ~OpAdd(k + 1)
          /\ OpIndex(k) \in SrcSet /\ OpIndex(k) \in DstSet
    /\ Len(ret.dst.info.sorted_components) >= 2


\* The alter adds and removes one and the same component and names no other.
AddRemoveSame ==
    /\ Altered
    /\ Len(ret.ops) >= 2
    /\ \A k \in 1..Len(ret.ops) : OpIndex(k) = OpIndex(1)
    /\ \E k \in 1..Len(ret.ops) : OpAdd(k)
    /\ \E k \in 1..Len(ret.ops) : ~OpAdd(k)

\* C16 as stated: adding and removing the same component C leaves the
\* component set as it was, and the id changes only if C is not in the source.
C16_AddRemoveNoOp ==
    AddRemoveSame =>
        /\ DstSet = SrcSet
        /\ ret.dst.info.id # ret.src.id => OpIndex(1) \notin SrcSet

\* C16: with the same component C in the add and in the remove set only the
\* first op of C is applied: add first gives source + C, remove first gives
\* source - C, and the id changes by C's id exactly when the set changes.
C16_AddRemoveFirstWins ==
    AddRemoveSame =>
        /\ DstSet = IF OpAdd(1) THEN SrcSet \cup {OpIndex(1)} ELSE SrcSet \ {OpIndex(1)}
        /\ ret.dst.info.id = IF DstSet = SrcSet THEN ret.src.id
                             ELSE BitXor(ret.src.id, ret.tid[OpIndex(1)])
        /\ ret.dst.info.id # ret.src.id <=> DstSet # SrcSet

\* C is in the source and its remove op comes first: C is removed.
C16_Witness ==
    /\ AddRemoveSame
    /\ ~OpAdd(1)
    /\ OpIndex(1) \in SrcSet
    /\ OpIndex(1) \notin DstSet
    /\ DstSet # {}

TableOk(t) ==
    /\ StrictlyAscending(t.sorted_columns)
    /\ \A ci \in 0..(Cardinality(ComponentIndexes) + 1) :
          Table_contains(t, ci) <=> \E k \in 1..Len(t.sorted_columns) : t.sorted_columns[k] = ci

\* C19: for every table, the source's and the one built from an alter1
\* destination, sorted_columns is strictly ascending by ComponentIndex and
\* contains(ci) is true exactly when a column with index ci is in it.
C19_SortedColumnsBitSet ==
    /\ ret.kind \in {"source", "alter1", "table"} => TableOk(ret.table)
    /\ ret.kind = "table" => TableOk(ret.dst_table)

\* A destination table of other columns than the source's, asked for an index
\* past its bit set.
C19_Witness ==
    /\ ret.kind = "table"
    /\ ret.dst_table.sorted_columns # ret.table.sorted_columns
    /\ Len(ret.dst_table.sorted_columns) >= 2
    /\ ret.dst.adding # <<>> /\ ret.dst.removing # <<>>
    /\ \E ci \in ComponentIndexes : ci \notin DOMAIN ret.dst_table.bit_set


\* ---------------------------------------------------------------- SpecId
\* An archetype is made from a bundle's components, given in any order, and
\* ArchetypeDependResult::insert is asked about a component list.
Bundles == UNION {Perms(S) : S \in SUBSET ComponentIndexes}

InitId ==
    /\ entities = [a \in ArIds |-> <<>>]
    /\ removes = [a \in ArIds |-> <<>>]
    /\ cells = [a \in ArIds |-> [c \in Comps |-> [r \in Rows |-> NoVal]]]
    /\ world = [e \in Entities |-> NoAddr]
    /\ dropCount = [v \in Vals |-> 0]
    /\ ver = [e \in Entities |-> [c \in Comps |-> 0]]
    /\ op = IdleOp
    /\ nextEnt = 1
    /\ alive = [a \in ArIds |-> TRUE]
    /\ ticks = [a \in ArIds |-> [r \in Rows |-> 0]]
    /\ records = [a \in ArIds |-> <<<<>>, <<>>>>]
    /\ archetype_arr = <<>>
    /\ qstate = NoQuery
    /\ qiter = NoIter
    /\ blob = NoBlob
    /\ \E tid \in TypeIdMaps : \E p \in Bundles :
          ret = [kind |-> "bundle", tid |-> tid, bundle |-> p]

\* ArchetypeInfo::sort on the bundle's components.
IdArchetype ==
    /\ ret.kind = "bundle"
    /\ ret' = [kind |-> "archetype", tid |-> ret.tid, bundle |-> ret.bundle,
               ar |-> ArchetypeInfo_sort(ret.tid, ret.bundle)]
    /\ UNCHANGED <<tvars, ticks, records, archetype_arr, qstate, qiter, blob>>

\* ArchetypeDependResult::insert(ar, world, components): the id computed from
\* the list is compared with the archetype's; on a match every component of
\* the list is pushed to writes.
DependInsert(components) ==
    /\ ret.kind = "archetype"
    /\ LET id == ComponentInfo_calc_id(ret.tid, components)
       IN ret' = [kind |-> "insert", tid |-> ret.tid, bundle |-> ret.bundle, ar |-> ret.ar,
                  components |-> components, id |-> id,
                  matched |-> (id = ret.ar.id),
                  writes |-> IF id = ret.ar.id THEN components ELSE <<>>]
    /\ UNCHANGED <<tvars, ticks, records, archetype_arr, qstate, qiter, blob>>

\* The list asked about is the bundle of the next archetype.
IdNext ==
    /\ ret.kind = "insert"
    /\ ret' = [kind |-> "bundle", tid |-> ret.tid, bundle |-> ret.components]
    /\ UNCHANGED <<tvars, ticks, records, archetype_arr, qstate, qiter, blob>>

NextId ==
    \/ IdArchetype
    \/ \E components \in Bundles : DependInsert(components)
    \/ IdNext

SpecId == InitId /\ [][NextId]_vars

HasArchetype == ret.kind \in {"archetype", "insert"}

\* C17: an archetype's id is the xor of the ids of its components, 0 for the
\* empty archetype; it does not depend on the order of the components; and
\* ComponentInfo::calc_id over the same components gives the same value.
C17_IdIsXor ==
    HasArchetype =>
        /\ IsXorOf(ret.ar.id, ret.tid, ret.ar.sorted_components)
        /\ ret.ar.sorted_components = <<>> => ret.ar.id = 0
        /\ \A p \in Perms(SeqToSet(ret.bundle)) :
              /\ ArchetypeInfo_new(ret.tid, p).id = ret.ar.id
              /\ ArchetypeInfo_sort(ret.tid, p) = ret.ar
        /\ ComponentInfo_calc_id(ret.tid, ret.bundle) = ret.ar.id
        /\ (ret.kind = "insert" /\ SeqToSet(ret.components) = SeqToSet(ret.bundle))
              => ret.id = ret.ar.id /\ ret.matched

\* Three components given in another order than the archetype's and asked
\* about in a third order.
C17_Witness ==
    /\ ret.kind = "insert"
    /\ Len(ret.bundle) = 3
    /\ ret.bundle # ret.ar.sorted_components
    /\ SeqToSet(ret.components) = SeqToSet(ret.bundle)
    /\ ret.components # ret.bundle /\ ret.components # ret.ar.sorted_components
    /\ ret.matched

\* C18: archetypes of equal id have the same sorted components, so the list
\* insert matches by id names exactly the archetype's components.
C18_EqualIdSameComponents ==
    ret.kind = "insert" =>
        /\ ArchetypeInfo_sort(ret.tid, ret.components).id = ret.ar.id
              => ArchetypeInfo_sort(ret.tid, ret.components).sorted_components
                    = ret.ar.sorted_components
        /\ ret.matched => SeqToSet(ret.writes) = SeqToSet(ret.ar.sorted_components)


\* -------------------------------------------------------------- SpecTick
\* One column: ticks[1] holds its tick per row (0 = never written), records[1][1]
\* its dirty log, ret.is_tick whether its ComponentInfo has COMPONENT_TICK set.
CallTicks == 0..MaxTick

\* Mutant: the tick is written whatever the recorded one is.
Column_change_record_always(is_tick, tks, dirty, e, row, tick) ==
    IF ~is_tick THEN [ticks |-> tks, dirty |-> dirty]
    ELSE [ticks |-> [tks EXCEPT ![row] = tick], dirty |-> Append(dirty, <<e, row>>)]

\* Column::change_record
Column_change_record(is_tick, tks, dirty, e, row, tick) ==
    IF ~is_tick THEN [ticks |-> tks, dirty |-> dirty]
    ELSE IF tks[row] >= tick THEN [ticks |-> tks, dirty |-> dirty]
    ELSE [ticks |-> [tks EXCEPT ![row] = tick], dirty |-> Append(dirty, <<e, row>>)]

\* Column::get_tick_unchecked
Column_get_tick_unchecked(row) == ticks[1][row]

InitTick ==
    /\ entities = [a \in ArIds |-> <<>>]
    /\ removes = [a \in ArIds |-> <<>>]
    /\ cells = [a \in ArIds |-> [c \in Comps |-> [r \in Rows |-> NoVal]]]
    /\ world = [e \in Entities |-> NoAddr]
    /\ dropCount = [v \in Vals |-> 0]
    /\ ver = [e \in Entities |-> [c \in Comps |-> 0]]
    /\ op = IdleOp
    /\ nextEnt = 1
    /\ alive = [a \in ArIds |-> TRUE]
    /\ ticks = [a \in ArIds |-> [r \in Rows |-> 0]]
    /\ records = [a \in ArIds |-> <<<<>>, <<>>>>]
    /\ archetype_arr = <<>>
    /\ qstate = NoQuery
    /\ qiter = NoIter
    /\ blob = NoBlob
    /\ \E is_tick \in BOOLEAN : ret = [kind |-> "column", is_tick |-> is_tick]

ChangeRecord(e, row, tick) ==
    /\ LET r == Column_change_record(ret.is_tick, ticks[1], records[1][1], e, row, tick)
       IN /\ ticks' = [ticks EXCEPT ![1] = r.ticks]
          /\ records' = [records EXCEPT ![1][1] = r.dirty]
    /\ ret' = [kind |-> "change", is_tick |-> ret.is_tick, e |-> e, row |-> row, tick |-> tick,
               before |-> ticks[1], dirty_before |-> records[1][1]]
    /\ UNCHANGED <<tvars, archetype_arr, qstate, qiter, blob>>

NextTick == \E e \in Entities : \E row \in Rows : \E tick \in CallTicks : ChangeRecord(e, row, tick)

SpecTick == InitTick /\ [][NextTick]_vars

TickWritten ==
    /\ Column_get_tick_unchecked(ret.row) = ret.tick
    /\ records[1][1] = Append(ret.dirty_before, <<ret.e, ret.row>>)
TickUntouched ==
    /\ Column_get_tick_unchecked(ret.row) = ret.before[ret.row]
    /\ records[1][1] = ret.dirty_before

\* C20: change_record(row, tick) writes the tick and appends a dirty record
\* only when tick is strictly greater than the row's recorded tick (and, for a
\* column that keeps ticks, whenever it is); otherwise tick and dirty log stay
\* as they were.  So no row's tick decreases, and the same call made again
\* changes nothing.
C20_ChangeRecordMonotone ==
    ret.kind = "change" =>
        /\ (ret.tick > ret.before[ret.row] /\ ret.is_tick) => TickWritten
        /\ (ret.tick <= ret.before[ret.row] \/ ~ret.is_tick) => TickUntouched
        /\ \A r \in Rows : Column_get_tick_unchecked(r) >= ret.before[r]
        /\ \A r \in Rows \ {ret.row} : Column_get_tick_unchecked(r) = ret.before[r]
        /\ Column_change_record(ret.is_tick, ticks[1], records[1][1], ret.e, ret.row, ret.tick)
              = [ticks |-> ticks[1], dirty |-> records[1][1]]

\* A call with a tick below the recorded one, after two calls that wrote.
C20_Witness ==
    /\ ret.kind = "change"
    /\ ret.is_tick
    /\ ret.tick > 0 /\ ret.tick < ret.before[ret.row]
    /\ Len(records[1][1]) >= 2

\* ------------------------------------------------------------ SpecRecord
\* One column under add_record and change_record calls; the entity of row r
\* is EntityAt(r).  The dirty log is cut at MaxDirty records.
MaxDirty == 3
EntityAt(row) == row + 1

\* Mutant: add_record keeps the larger tick, as change_record does.
Column_add_record_guarded(is_tick, tks, dirty, e, row, tick) ==
    IF ~is_tick THEN [ticks |-> tks, dirty |-> dirty]
    ELSE IF tks[row] >= tick THEN [ticks |-> tks, dirty |-> dirty]
    ELSE [ticks |-> [tks EXCEPT ![row] = tick], dirty |-> Append(dirty, <<e, row>>)]

\* Column::add_record
Column_add_record(is_tick, tks, dirty, e, row, tick) ==
    IF ~is_tick THEN [ticks |-> tks, dirty |-> dirty]
    ELSE [ticks |-> [tks EXCEPT ![row] = tick], dirty |-> Append(dirty, <<e, row>>)]

RecordAdd(row, tick) ==
    /\ Len(records[1][1]) < MaxDirty
    /\ LET r == Column_add_record(ret.is_tick, ticks[1], records[1][1], EntityAt(row), row, tick)
       IN /\ ticks' = [ticks EXCEPT ![1] = r.ticks]
          /\ records' = [records EXCEPT ![1][1] = r.dirty]
    /\ ret' = [kind |-> "add", is_tick |-> ret.is_tick, e |-> EntityAt(row), row |-> row,
               tick |-> tick, before |-> ticks[1], dirty_before |-> records[1][1]]
    /\ UNCHANGED <<tvars, archetype_arr, qstate, qiter, blob>>

RecordChange(row, tick) ==
    /\ Len(records[1][1]) < MaxDirty
    /\ LET r == Column_change_record(ret.is_tick, ticks[1], records[1][1], EntityAt(row), row, tick)
       IN /\ ticks' = [ticks EXCEPT ![1] = r.ticks]
          /\ records' = [records EXCEPT ![1][1] = r.dirty]
    /\ ret' = [kind |-> "change", is_tick |-> ret.is_tick, e |-> EntityAt(row), row |-> row,
               tick |-> tick, before |-> ticks[1], dirty_before |-> records[1][1]]
    /\ UNCHANGED <<tvars, archetype_arr, qstate, qiter, blob>>

NextRecord ==
    \/ \E row \in Rows : \E tick \in CallTicks : RecordAdd(row, tick)
    \/ \E row \in Rows : \E tick \in CallTicks : RecordChange(row, tick)

SpecRecord == InitTick /\ [][NextRecord]_vars

\* C21: add_record on a column that keeps ticks writes the given tick to the
\* row whatever the recorded tick is, also a smaller one, and appends a dirty
\* record; on a column that keeps no ticks add_record and change_record leave
\* the ticks and the dirty log as they were.
C21_AddRecordUnconditional ==
    /\ (ret.kind = "add" /\ ret.is_tick) =>
          /\ TickWritten
          /\ \A r \in Rows \ {ret.row} : Column_get_tick_unchecked(r) = ret.before[r]
    /\ (ret.kind \in {"add", "change"} /\ ~ret.is_tick) =>
          /\ ticks[1] = ret.before
          /\ records[1][1] = ret.dirty_before

\* add_record with a tick below the recorded one.
C21_Witness ==
    /\ ret.kind = "add"
    /\ ret.is_tick
    /\ ret.tick < ret.before[ret.row]
    /\ ret.dirty_before # <<>>

\* --------------------------------------------------------------- SpecRun
\* One run of a query's iterator over tables that rest: entities are inserted,
\* changed and destroyed at the ticks up to op.tick, then an iterator is made at
\* that tick and driven until after it has returned None.  ret.out lists the
\* keys yielded, ret.nones counts the None results.
InitRun ==
    \E c \in 0..2 : \E q \in Comps :
        /\ entities = [a \in ArIds |-> <<>>]
        /\ removes = [a \in ArIds |-> <<>>]
        /\ cells = [a \in ArIds |-> [c2 \in Comps |-> [r \in Rows |-> NoVal]]]
        /\ world = [e \in Entities |-> NoAddr]
        /\ dropCount = [v \in Vals |-> 0]
        /\ ver = [e \in Entities |-> [c2 \in Comps |-> 0]]
        /\ op = [IdleOp EXCEPT !.tick = 1]
        /\ nextEnt = 1
        /\ alive = [a \in ArIds |-> TRUE]
        /\ ticks = [a \in ArIds |-> [r \in Rows |-> 0]]
        /\ records = [a \in ArIds |-> <<<<>>, <<>>>>]
        /\ archetype_arr = <<[NewArchetype(1, "before") EXCEPT !.listened = (c > 0)],
                              [NewArchetype(2, "before") EXCEPT !.listened = (c > 0)]>>
        /\ qstate = QueryState_align(QueryState_new(c, q), archetype_arr)
        /\ qiter = NoIter
        /\ ret = [kind |-> "build"]
        /\ blob = NoBlob

\* The scheduler's tick advances.
RunTick ==
    /\ ret.kind = "build"
    /\ op.tick < MaxTick
    /\ op' = [op EXCEPT !.tick = @ + 1]
    /\ UNCHANGED <<entities, removes, cells, world, dropCount, ver, nextEnt, alive>>
    /\ UNCHANGED qvars

\* A whole insert: alloc, add-tick and records, world address, set.
RunInsert(a) ==
    /\ ret.kind = "build"
    /\ nextEnt <= MaxEnt
    /\ Table_len(a) < MaxRows
    /\ entities' = [entities EXCEPT ![a] = SetAt(Table_alloc(a), Table_len(a), nextEnt)]
    /\ ticks' = [ticks EXCEPT ![a][Table_len(a)] = op.tick]
    /\ records' = [records EXCEPT ![a] = add_record(@, a, Table_len(a))]
    /\ world' = [world EXCEPT ![nextEnt] = [ar |-> a, row |-> Table_len(a)]]
    /\ nextEnt' = nextEnt + 1
    /\ UNCHANGED <<removes, cells, dropCount, ver, op, alive>>
    /\ UNCHANGED <<archetype_arr, qstate, qiter, ret, blob>>

RunChange(e) ==
    /\ ret.kind = "build"
    /\ world[e] # NoAddr
    /\ RowTick(world[e].ar, world[e].row) < op.tick
    /\ ticks' = [ticks EXCEPT ![world[e].ar][world[e].row] = op.tick]
    /\ records' = [records EXCEPT ![world[e].ar] = add_record(@, world[e].ar, world[e].row)]
    /\ UNCHANGED tvars
    /\ UNCHANGED <<archetype_arr, qstate, qiter, ret, blob>>

RunDestroy(e) ==
    /\ ret.kind = "build"
    /\ world[e] # NoAddr
    /\ LET r == Table_destroy(world[e].ar, world[e].row)
       IN /\ entities' = [entities EXCEPT ![world[e].ar] = r.ents]
          /\ removes' = [removes EXCEPT ![world[e].ar] = r.rem]
          /\ dropCount' = r.dc
    /\ world' = [world EXCEPT ![e] = NoAddr]
    /\ UNCHANGED <<cells, ver, op, nextEnt, alive>>
    /\ UNCHANGED qvars

\* QueryState::iter at the current tick.
RunNew ==
    /\ ret.kind = "build"
    /\ qiter' = QueryIter_new(qstate, op.tick)
    /\ ret' = [kind |-> "run", out |-> <<>>, nones |-> 0]
    /\ UNCHANGED tvars
    /\ UNCHANGED <<ticks, records, archetype_arr, qstate, blob>>

\* Iterator::next, called once more after the first None.
RunNext ==
    /\ ret.kind = "run"
    /\ ret.nones < 2
    /\ LET r == QueryIter_next(qiter)
       IN /\ qiter' = r.it
          /\ ret' = IF r.key = NoAddr THEN [ret EXCEPT !.nones = @ + 1]
                    ELSE [ret EXCEPT !.out = Append(@, r.key)]
    /\ UNCHANGED tvars
    /\ UNCHANGED <<ticks, records, archetype_arr, qstate, blob>>

NextRun ==
    \/ RunTick
    \/ \E a \in ArIds : RunInsert(a)
    \/ \E e \in Entities : RunChange(e)
    \/ \E e \in Entities : RunDestroy(e)
    \/ RunNew
    \/ RunNext

SpecRun == InitRun /\ [][NextRun]_vars

RunDone == ret.kind = "run" /\ ret.nones > 0
\* The rows of the matched archetypes with an entity and a tick below the run's.
RunRows ==
    {k \in [ar : Matched(qstate), row : Rows] :
        /\ k.row < Table_len(k.ar)
        /\ Table_get(k.ar, k.row) # Null
        /\ RowTick(k.ar, k.row) < qiter.tick}

\* C22: a query with no listeners yields, over its matched archetypes, exactly
\* the rows whose entity is not null and whose tick is below the current tick,
\* each exactly once.
C22_NormalYieldsLiveRows ==
    (RunDone /\ qstate.listener_count = 0) =>
        /\ SeqToSet(ret.out) = RunRows
        /\ Cardinality(SeqToSet(ret.out)) = Len(ret.out)

OutEntity(i) == Table_get(ret.out[i].ar, ret.out[i].row)
Occurrences(log, row) == Cardinality({i \in 1..Len(log) : log[i] = row})

\* C24: a query with several listeners yields an entity at most once in one
\* iteration, also when the entity is recorded in the logs of several listened
\* components or several times in one log.
C24_YieldedOnce ==
    (ret.kind = "run" /\ qstate.listener_count >= 2) =>
        \A i \in 1..Len(ret.out) : \A j \in 1..Len(ret.out) :
            i # j => (OutEntity(i) # OutEntity(j) /\ ret.out[i] # ret.out[j])

\* The run is over and has yielded a row of archetype 2 that is twice in the
\* log of the first listened component and also in the log of the second.
C24_Witness ==
    /\ RunDone
    /\ qstate.listener_count >= 2
    /\ \E i \in 1..Len(ret.out) :
          /\ ret.out[i].ar = 2
          /\ Occurrences(records[2][1], ret.out[i].row) >= 2
          /\ Occurrences(records[2][2], ret.out[i].row) >= 1

VecPos(a) == CHOOSE i \in 1..Len(qstate.vec) : qstate.vec[i].ar = a

\* C26: one iteration visits the matched archetypes in descending position of
\* QueryState.vec; in the normal mode the rows of one archetype come in
\* ascending order; after the iterator has returned None, next returns None.
C26_DescendingThenNone ==
    ret.kind = "run" =>
        /\ \A i \in 1..Len(ret.out) : \A j \in 1..Len(ret.out) :
              i < j =>
                 /\ VecPos(ret.out[i].ar) >= VecPos(ret.out[j].ar)
                 /\ (qstate.listener_count = 0 /\ ret.out[i].ar = ret.out[j].ar)
                       => ret.out[i].row < ret.out[j].row
        /\ ret.nones > 0 => QueryIter_next(qiter).key = NoAddr

\* A finished normal-mode run, asked again after its first None, that yielded
\* a row of each of the two archetypes.
C26_Witness ==
    /\ ret.kind = "run"
    /\ ret.nones = 2
    /\ qstate.listener_count = 0
    /\ {ret.out[i].ar : i \in 1..Len(ret.out)} = {1, 2}

\* ----------------------------------------------------------- SpecChanged
\* Several runs of one Changed<A> query (one listener), one run per tick at
\* most, with writes of A before and after each run.  The iterator over a
\* listener's records (RecordIndex::get_iter, record.rs) is not part of the
\* sources: ret.consume is TRUE when a run leaves the records it has read
\* behind and FALSE when every run reads the whole log; Init draws both.
\* Ghost fields of ret: old / now = the entities written since the previous run
\* started, at an earlier tick / at the current tick; early = the entities
\* written at the previous run's tick before that run started; must / may =
\* the entities the current run owes and may yield; out = the entities it has
\* yielded; done = it has returned None.
\* The runs take place at three consecutive ticks, as in the change-tracking
\* scenario (ticks 5, 6 and 7).
MaxRunTick == 3

InitChanged ==
    \E consume \in BOOLEAN :
        /\ entities = [a \in ArIds |-> <<>>]
        /\ removes = [a \in ArIds |-> <<>>]
        /\ cells = [a \in ArIds |-> [c2 \in Comps |-> [r \in Rows |-> NoVal]]]
        /\ world = [e \in Entities |-> NoAddr]
        /\ dropCount = [v \in Vals |-> 0]
        /\ ver = [e \in Entities |-> [c2 \in Comps |-> 0]]
        /\ op = [IdleOp EXCEPT !.tick = 1]
        /\ nextEnt = 1
        /\ alive = [a \in ArIds |-> TRUE]
        /\ ticks = [a \in ArIds |-> [r \in Rows |-> 0]]
        /\ records = [a \in ArIds |-> <<<<>>, <<>>>>]
        /\ archetype_arr = <<[NewArchetype(1, "before") EXCEPT !.listened = TRUE],
                              [NewArchetype(2, "before") EXCEPT !.listened = TRUE]>>
        /\ qstate = QueryState_align(QueryState_new(1, "A"), archetype_arr)
        /\ qiter = NoIter
        /\ ret = [kind |-> "changed", consume |-> consume, running |-> FALSE, done |-> FALSE,
                  last |-> 0, old |-> {}, now |-> {}, early |-> {}, must |-> {}, may |-> {},
                  out |-> {}]
        /\ blob = NoBlob

ChangedTick ==
    /\ ret.kind = "changed"
    /\ ~ret.running
    /\ op.tick < MaxRunTick
    /\ op' = [op EXCEPT !.tick = @ + 1]
    /\ ret' = [ret EXCEPT !.old = @ \cup ret.now, !.now = {}]
    /\ UNCHANGED <<entities, removes, cells, world, dropCount, ver, nextEnt, alive>>
    /\ UNCHANGED <<ticks, records, archetype_arr, qstate, qiter, blob>>

\* A whole insert with component A: alloc, Column::add_record, world address, set.
ChangedInsert(a) ==
    /\ ret.kind = "changed"
    /\ ~ret.running
    /\ nextEnt <= MaxEnt
    /\ Table_len(a) < MaxRows
    /\ entities' = [entities EXCEPT ![a] = SetAt(Table_alloc(a), Table_len(a), nextEnt)]
    /\ ticks' = [ticks EXCEPT ![a][Table_len(a)] = op.tick]
    /\ records' = [records EXCEPT ![a] = add_record(@, a, Table_len(a))]
    /\ world' = [world EXCEPT ![nextEnt] = [ar |-> a, row |-> Table_len(a)]]
    /\ nextEnt' = nextEnt + 1
    /\ ret' = [ret EXCEPT !.now = @ \cup {nextEnt}]
    /\ UNCHANGED <<removes, cells, dropCount, ver, op, alive>>
    /\ UNCHANGED <<archetype_arr, qstate, qiter, blob>>

\* A write of A of a live entity followed by Column::change_record.
ChangedChange(e) ==
    /\ ret.kind = "changed"
    /\ ~ret.running
    /\ world[e] # NoAddr
    /\ IF RowTick(world[e].ar, world[e].row) >= op.tick
       THEN UNCHANGED <<ticks, records>>
       ELSE /\ ticks' = [ticks EXCEPT ![world[e].ar][world[e].row] = op.tick]
            /\ records' = [records EXCEPT ![world[e].ar] = add_record(@, world[e].ar, world[e].row)]
    /\ ret' = [ret EXCEPT !.now = @ \cup {e}]
    /\ UNCHANGED tvars
    /\ UNCHANGED <<archetype_arr, qstate, qiter, blob>>

\* The query's system runs, once a tick at most: QueryState::iter.
ChangedNew ==
    /\ ret.kind = "changed"
    /\ ~ret.running
    /\ ret.last < op.tick
    /\ qiter' = QueryIter_new(qstate, op.tick)
    /\ ret' = [ret EXCEPT !.running = TRUE, !.done = FALSE, !.last = op.tick,
                          !.must = ret.old, !.may = ret.old \cup ret.early,
                          !.early = ret.now, !.old = {}, !.now = {}, !.out = {}]
    /\ UNCHANGED tvars
    /\ UNCHANGED <<ticks, records, archetype_arr, qstate, blob>>

\* QueryIter::next until None; the run then ends.
ChangedNext ==
    /\ ret.kind = "changed"
    /\ ret.running
    /\ LET r == QueryIter_next(qiter)
       IN /\ qiter' = r.it
          /\ IF r.key = NoAddr
             THEN /\ ret' = [ret EXCEPT !.running = FALSE, !.done = TRUE]
                  /\ records' = IF ret.consume THEN [a \in ArIds |-> <<<<>>, <<>>>>]
                                ELSE records
             ELSE /\ ret' = [ret EXCEPT !.out = @ \cup {Table_get(r.key.ar, r.key.row)}]
                  /\ UNCHANGED records
    /\ UNCHANGED tvars
    /\ UNCHANGED <<ticks, archetype_arr, qstate, blob>>

NextChanged ==
    \/ ChangedTick
    \/ \E a \in ArIds : ChangedInsert(a)
    \/ \E e \in Entities : ChangedChange(e)
    \/ ChangedNew
    \/ ChangedNext

SpecChanged == InitChanged /\ [][NextChanged]_vars

\* C23: a finished run of a Changed<A> query at tick t has yielded exactly the
\* entities whose A was written since the query's previous run and before t.
\* Entities written at the previous run's tick before that run started are
\* allowed either way.
C23_ChangedSincePreviousRun ==
    (ret.kind = "changed" /\ ret.done) =>
        /\ ret.must \subseteq ret.out
        /\ ret.out \subseteq ret.may

\* ------------------------------------------------------------- SpecAlign
\* align calls of one query interleaved with the creation of archetypes.  The
\* world creates its archetypes, the empty one (0) included, in any order; a
\* created archetype has the query's records or not.  ret keeps the query
\* state before the last align and the archetype count that align saw.
InitAlign ==
    \E c \in 0..2 : \E q \in Comps :
        /\ entities = [a \in ArIds |-> <<>>]
        /\ removes = [a \in ArIds |-> <<>>]
        /\ cells = [a \in ArIds |-> [c2 \in Comps |-> [r \in Rows |-> NoVal]]]
        /\ world = [e \in Entities |-> NoAddr]
        /\ dropCount = [v \in Vals |-> 0]
        /\ ver = [e \in Entities |-> [c2 \in Comps |-> 0]]
        /\ op = IdleOp
        /\ nextEnt = 1
        /\ alive = [a \in ArIds |-> TRUE]
        /\ ticks = [a \in ArIds |-> [r \in Rows |-> 0]]
        /\ records = [a \in ArIds |-> <<<<>>, <<>>>>]
        /\ archetype_arr = <<>>
        /\ qstate = QueryState_new(c, q)
        /\ qiter = NoIter
        /\ ret = [kind |-> "new"]
        /\ blob = NoBlob

AlignCreateArchetype(a, listened) ==
    /\ a \notin Created
    /\ archetype_arr' = Append(archetype_arr, [NewArchetype(a, "after") EXCEPT !.listened = listened])
    /\ UNCHANGED tvars
    /\ UNCHANGED <<ticks, records, qstate, qiter, ret, blob>>

Align ==
    /\ qstate' = QueryState_align(qstate, archetype_arr)
    /\ ret' = [kind |-> "align", before |-> qstate, seen |-> Len(archetype_arr)]
    /\ UNCHANGED tvars
    /\ UNCHANGED <<ticks, records, archetype_arr, qiter, blob>>

NextAlign ==
    \/ \E a \in WorldArIds : \E listened \in BOOLEAN : AlignCreateArchetype(a, listened)
    \/ Align

SpecAlign == InitAlign /\ [][NextAlign]_vars

\* The archetype is one the query keeps: neither filter nor fetch rejects it
\* and, with listeners, find_records finds a listened component on it.
Kept(ar) ==
    /\ ~archetype_filter(ar.id, qstate.q)
    /\ qstate.listener_count > 0 => Len(find_records_ar(ar, qstate)) > 0

KeptBelow(n) == SelectSeq(SubSeq(archetype_arr, 1, n), Kept)

\* C25: after an align, archetype_len has not decreased and is the world's
\* archetype count that align saw; vec holds, once each and in world order, the
\* archetypes below archetype_len that the query keeps; an align that saw no
\* new archetype left the query state as it was.
C25_AlignInvariants ==
    ret.kind = "align" =>
        /\ ret.before.archetype_len <= qstate.archetype_len
        /\ qstate.archetype_len = ret.seen
        /\ Len(qstate.vec) = Len(KeptBelow(qstate.archetype_len))
        /\ \A i \in 1..Len(qstate.vec) :
              /\ qstate.vec[i].ar = KeptBelow(qstate.archetype_len)[i].id
              /\ qstate.vec[i].d = find_records_ar(KeptBelow(qstate.archetype_len)[i], qstate)
        /\ ret.before.archetype_len = ret.seen => qstate = ret.before

\* A query with listeners whose last align found new archetypes after an
\* earlier one, and that keeps one archetype while the fetch rejected one and
\* find_records found nothing on another.
C25_Witness ==
    /\ ret.kind = "align"
    /\ qstate.listener_count > 0
    /\ ret.before.archetype_len \in 1..2
    /\ qstate.archetype_len = 3
    /\ Len(qstate.vec) = 1
    /\ \E i \in 1..3 : /\ ~archetype_filter(archetype_arr[i].id, qstate.q)
                       /\ ~archetype_arr[i].listened

\* ------------------------------------------------------------ SpecDelete
\* Query::delete and the `after` hook on the world of SpecGet: archetypes are
\* created, the query aligns, entities are inserted, deleted through the query
\* and the hook clears the query's removes.  Archetype::remove and
\* Archetype::drop_key are not part of the sources: remove is taken as marking
\* the row (Table::destroy), TRUE when the row was live, and drop_key as leaving
\* the marked row to the table's settle.

\* QueryState::delete: result [qs, res, ents, rem, dc, w].
QueryState_delete(qs, w, entity) ==
    LET r == QueryState_check(qs.last, qs.map, w, entity)
        unchanged == [qs |-> qs, ents |-> entities, rem |-> removes, dc |-> dropCount, w |-> w]
    IN IF r.err # "" THEN unchanged @@ [res |-> r.err]
       ELSE LET local == r.last.local
                a == qs.vec[local + 1].ar
                qs2 == [qs EXCEPT !.last = r.last]
            IN IF Table_get(a, r.addr.row) = Null
               THEN [unchanged EXCEPT !.qs = qs2] @@ [res |-> "false"]
               ELSE LET d == Table_destroy(a, r.addr.row)
                    IN [qs |-> [qs2 EXCEPT !.removes = Append(@, <<local, r.addr.row>>)],
                        ents |-> [entities EXCEPT ![a] = d.ents],
                        rem |-> [removes EXCEPT ![a] = d.rem],
                        dc |-> d.dc,
                        w |-> [w EXCEPT ![entity] = NoAddr],
                        res |-> "Ok"]

\* QueryState::clear: pops every removal.
QueryState_clear(qs) == [qs EXCEPT !.removes = <<>>]

\* ret keeps the entity, the result and whether the entity's archetype was
\* matched when delete was called.
QueryDelete(e) ==
    /\ LET r == QueryState_delete(qstate, world, e)
       IN /\ qstate' = r.qs
          /\ entities' = r.ents
          /\ removes' = r.rem
          /\ dropCount' = r.dc
          /\ world' = r.w
          /\ ret' = [kind |-> "delete", e |-> e, res |-> r.res,
                     matched |-> world[e] # NoAddr /\ world[e].ar \in Matched(qstate)]
    /\ UNCHANGED <<cells, ver, op, nextEnt, alive>>
    /\ UNCHANGED <<ticks, records, archetype_arr, qiter, blob>>

\* SystemParam::after for Query.
QueryAfter ==
    /\ qstate' = QueryState_clear(qstate)
    /\ ret' = [kind |-> "after"]
    /\ UNCHANGED tvars
    /\ UNCHANGED <<ticks, records, archetype_arr, qiter, blob>>

NextDelete ==
    \/ \E a \in ArIds : GetCreateArchetype(a)
    \/ GetAlign
    \/ \E a \in ArIds : GetInsert(a)
    \/ \E e \in Entities : QueryDelete(e)
    \/ QueryAfter

SpecDelete == InitGet /\ [][NextDelete]_vars

\* C27: delete of an entity of a matched archetype succeeds and removes the
\* entity from the world, so that later get and delete calls find no such
\* entity; after the `after` hook the query's removes list is empty.
C27_DeleteRemoves ==
    /\ (ret.kind = "delete" /\ ret.matched) => (ret.res = "Ok" /\ world[ret.e] = NoAddr)
    /\ ret.kind = "after" => qstate.removes = <<>>

\* ---------------------------------------------------------- SpecResettle
\* Table::settle called twice in a row on the tables of SpecSettle.  ret keeps
\* the table and the world as they were before the last call.
SettleAgain ==
    /\ op.kind \in {"unsettled", "settled"}
    /\ LET r == Table_settle(1)
       IN /\ entities' = [entities EXCEPT ![1] = r.ents]
          /\ removes' = [removes EXCEPT ![1] = r.rem]
          /\ cells' = [cells EXCEPT ![1] = r.cols]
          /\ world' = r.w
          /\ op' = [op EXCEPT !.kind = IF op.kind = "unsettled" THEN "settled" ELSE "resettled",
                              !.src = 1, !.drow = Len(r.action)]
    /\ ret' = [kind |-> "settle", ents |-> entities[1], rem |-> removes[1],
               cols |-> cells[1], w |-> world]
    /\ UNCHANGED <<dropCount, ver, nextEnt, alive>>
    /\ UNCHANGED <<ticks, records, archetype_arr, qstate, qiter, blob>>

NextResettle == SettleAgain

SpecResettle == InitSettle /\ [][NextResettle]_vars

SettleChangedNothing ==
    /\ entities[1] = ret.ents
    /\ removes[1] = ret.rem
    /\ cells[1] = ret.cols
    /\ world = ret.w

\* C28: a settle of a table whose removes queue is empty changes neither the
\* table nor the world; the second of two settles in a row changes nothing.
C28_SettleIdempotent ==
    /\ (ret.kind = "settle" /\ ret.rem = <<>>) => SettleChangedNothing
    /\ op.kind = "resettled" => SettleChangedNothing

\* The second settle of a table from which the first one removed rows and
\* moved one, leaving rows behind.
C28_Witness ==
    /\ op.kind = "resettled"
    /\ op.srow > Table_len(1)
    /\ Table_len(1) >= 2
    /\ \E r \in 0..(Table_len(1) - 1) : Table_get(1, r) # r + 1

\* ----------------------------------------------------------- SpecCompact
\* Destroy and compact: ScenarioLen entities were spawned into archetype 1
\* ({A}), the entity at row r is r + 1.  Up to MaxDestroy rows are destroyed
\* in any order, then the table is settled.  ret.rem lists the rows destroyed.
ScenarioLen == 10
MaxDestroy == 3
ScenarioEntities == 1..ScenarioLen

InitCompact ==
    /\ entities = [a \in ArIds |-> IF a = 1 THEN [i \in 1..ScenarioLen |-> i] ELSE <<>>]
    /\ removes = [a \in ArIds |-> <<>>]
    /\ cells = [a \in ArIds |-> [c \in Comps |-> [r \in 0..(ScenarioLen - 1) |->
                      IF a = 1 /\ c = "A" THEN <<r + 1, "A", 0>> ELSE NoVal]]]
    /\ world = [e \in ScenarioEntities |-> [ar |-> 1, row |-> e - 1]]
    /\ dropCount = [v \in (ScenarioEntities \X Comps \X {0}) \cup {NoVal} |-> 0]
    /\ ver = [e \in ScenarioEntities |-> [c \in Comps |-> IF c = "A" THEN 1 ELSE 0]]
    /\ op = IdleOp
    /\ nextEnt = ScenarioLen + 1
    /\ alive = [a \in ArIds |-> TRUE]
    /\ ticks = [a \in ArIds |-> [r \in Rows |-> 0]]
    /\ records = [a \in ArIds |-> <<<<>>, <<>>>>]
    /\ archetype_arr = <<>>
    /\ qstate = NoQuery
    /\ qiter = NoIter
    /\ ret = [kind |-> "compact", settled |-> FALSE, rem |-> <<>>]
    /\ blob = NoBlob

\* World destroy of the entity at a row: Table::destroy, then the world's entry.
CompactDestroy(row) ==
    /\ ret.kind = "compact"
    /\ ~ret.settled
    /\ Len(ret.rem) < MaxDestroy
    /\ Table_get(1, row) # Null
    /\ LET r == Table_destroy(1, row)
       IN /\ entities' = [entities EXCEPT ![1] = r.ents]
          /\ removes' = [removes EXCEPT ![1] = r.rem]
          /\ dropCount' = r.dc
          /\ world' = [world EXCEPT ![r.e] = NoAddr]
    /\ ret' = [ret EXCEPT !.rem = Append(@, row)]
    /\ UNCHANGED <<cells, ver, op, nextEnt, alive>>
    /\ UNCHANGED <<ticks, records, archetype_arr, qstate, qiter, blob>>

CompactSettle ==
    /\ ret.kind = "compact"
    /\ ~ret.settled
    /\ LET r == Table_settle(1)
       IN /\ entities' = [entities EXCEPT ![1] = r.ents]
          /\ removes' = [removes EXCEPT ![1] = r.rem]
          /\ cells' = [cells EXCEPT ![1] = r.cols]
          /\ world' = r.w
    /\ ret' = [ret EXCEPT !.settled = TRUE]
    /\ UNCHANGED <<dropCount, ver, op, nextEnt, alive>>
    /\ UNCHANGED <<ticks, records, archetype_arr, qstate, qiter, blob>>

NextCompact ==
    \/ \E row \in 0..(ScenarioLen - 1) : CompactDestroy(row)
    \/ CompactSettle

SpecCompact == InitCompact /\ [][NextCompact]_vars

Destroyed257 == ret.kind = "compact" /\ SeqToSet(ret.rem) = {2, 5, 7}

\* C29 as stated: after the settle the length is 7 and each of the rows 2, 5
\* and 7 holds an entity that was at the tail (rows 7 to 9) before.
C29_TailFillsRemovedRows ==
    (Destroyed257 /\ ret.settled) =>
        /\ Table_len(1) = 7
        /\ \A r \in {2, 5, 7} : r < Table_len(1) /\ Table_get(1, r) \in 8..10

\* C29 amended: destroying rows 2, 5 and 7 of the ten leaves those slots null
\* and removes = {2, 5, 7}; after the settle the length is 7, row 2 holds the
\* entity formerly at row 9 and row 5 the one formerly at row 8, the other rows
\* keep their entities, row 7 is past the end, every row's entity is found at
\* that row in the world, the destroyed entities are not in the world and
\* removes is empty.
C29_DestroyThenSettle ==
    /\ (Destroyed257 /\ ~ret.settled) =>
          /\ Table_len(1) = 10
          /\ SeqToSet(removes[1]) = {2, 5, 7} /\ Len(removes[1]) = 3
          /\ \A r \in 0..9 : Table_get(1, r) = IF r \in {2, 5, 7} THEN Null ELSE r + 1
    /\ (Destroyed257 /\ ret.settled) =>
          /\ Table_len(1) = 7
          /\ Table_get(1, 2) = 10
          /\ Table_get(1, 5) = 9
          /\ \A r \in {0, 1, 3, 4, 6} : Table_get(1, r) = r + 1
          /\ \A r \in 0..6 : world[Table_get(1, r)] = [ar |-> 1, row |-> r]
          /\ \A e \in {3, 6, 8} : world[e] = NoAddr
          /\ removes[1] = <<>>

\* The table after rows 7, 2 and 5 were destroyed, in that order, and settled.
C29_Witness ==
    /\ ret.kind = "compact"
    /\ ret.rem = <<7, 2, 5>>
    /\ ret.settled

\* ------------------------------------------------------------ SpecCancel
\* Inserts that are never committed, on the world of SpecGet: a row is
\* allocated and its entity slot is never set, next to committed inserts and
\* destroys; then the table is settled.  After a settle ret keeps whether the
\* table had a null slot that was not in removes and the rows below the new
\* length whose slot is null.
Uncommitted(a) ==
    {r \in 0..(Table_len(a) - 1) : Table_get(a, r) = Null /\ r \notin SeqToSet(removes[a])}

\* Table::alloc by an insert that is cancelled before Table::set.
CancelAlloc(a) ==
    /\ a \in Created
    /\ Table_len(a) < MaxRows
    /\ entities' = [entities EXCEPT ![a] = Table_alloc(a)]
    /\ UNCHANGED <<removes, cells, world, dropCount, ver, op, nextEnt, alive>>
    /\ UNCHANGED qvars

CancelSettle(a) ==
    /\ a \in Created
    /\ LET r == Table_settle(a)
       IN /\ entities' = [entities EXCEPT ![a] = r.ents]
          /\ removes' = [removes EXCEPT ![a] = r.rem]
          /\ cells' = [cells EXCEPT ![a] = r.cols]
          /\ world' = r.w
          /\ ret' = [kind |-> "settled", a |-> a, uncommitted |-> Uncommitted(a) # {},
                     left |-> {row \in 0..(Len(r.ents) - 1) : r.ents[row + 1] = Null}]
    /\ UNCHANGED <<dropCount, ver, op, nextEnt, alive>>
    /\ UNCHANGED <<ticks, records, archetype_arr, qstate, qiter, blob>>

NextCancel ==
    \/ \E a \in ArIds : GetCreateArchetype(a)
    \/ \E a \in ArIds : GetInsert(a)
    \/ \E e \in Entities : GetDestroy(e)
    \/ \E a \in ArIds : CancelAlloc(a)
    \/ \E a \in ArIds : CancelSettle(a)

SpecCancel == InitGet /\ [][NextCancel]_vars

\* C30: a settle of a table that has a row whose entity slot is null without
\* the row being in removes reclaims the row: no null slot is left below the
\* new length.
C30_UncommittedReclaimed ==
    (ret.kind = "settled" /\ ret.uncommitted) => ret.left = {}

\* ------------------------------------------------------- C31 (under Spec)
\* The step leaves every table's length and, except at row `row` of table a,
\* every row's entity, column cells and tick as they were.
OtherRowsKept(a, row) ==
    \A b \in ArIds :
        /\ Len(entities'[b]) = Len(entities[b])
        /\ \A r \in 0..(Table_len(b) - 1) :
              (b # a \/ r # row) =>
                 /\ entities'[b][r + 1] = entities[b][r + 1]
                 /\ \A c \in Comps : cells'[b][c][r] = cells[b][c][r]
                 /\ ticks'[b][r] = ticks[b][r]

\* The step stores an entity of a table at another row of that table.
RowMoved ==
    \E a \in ArIds : \E r \in 0..(Table_len(a) - 1) : \E r2 \in 0..(Len(entities'[a]) - 1) :
        /\ r2 # r
        /\ entities[a][r + 1] # Null
        /\ entities'[a][r2 + 1] = entities[a][r + 1]

\* C31: destroy and mark_remove leave the table length and every other row's
\* entity, cells and tick unchanged; a step that stores an entity at another
\* row of its table is a settle.
C31_DestroyMarkKeepRows ==
    [][/\ \A e \in Entities : DestroyTable(e) => OtherRowsKept(world[e].ar, world[e].row)
       /\ AlterMark => OtherRowsKept(op.src, op.srow)
       /\ RowMoved => \E a \in ArIds : Settle(a)]_vars

\* Right after Table::destroy of a row of a table in which another row holds
\* an entity.
C31_Witness ==
    /\ op.kind = "destroy" /\ op.pc = "world"
    /\ Table_get(op.src, op.srow) = Null
    /\ \E r \in 0..(Table_len(op.src) - 1) : r # op.srow /\ Table_get(op.src, r) # Null

\* ------------------------------------------------------- C32 (under Spec)
\* The slots <<table, row>> whose entity is e.
StoredAt(e) == {ar \in ArIds \X Rows : ar[2] < Table_len(ar[1]) /\ Table_get(ar[1], ar[2]) = e}

MaxMembers == 2
FetchRows == 0..1
OrArgs == {<<>>, <<"A">>, <<"B">>, <<"A", "B">>, <<"B", "A">>}
FilterMembers ==
    [k : {"With", "Without", "Changed"}, c : Comps, cs : {<<>>}]
        \cup [k : {"Or"}, c : {"A"}, cs : OrArgs]
FetchMembers == [k : {"Ref", "Mut", "OptRef", "OptMut"}, c : Comps]
TuplesOf(S, n) == UNION {[1..m -> S] : m \in 0..n}

\* Archetype::get_column(&TypeId) / get_column_index: the position of the
\* component among the archetype's columns, null when it has none.
ColumnIndex_null == -1
SortedComps(ar) == IF ar = {"A", "B"} THEN <<"A", "B">>
                   ELSE IF ar = {"A"} THEN <<"A">>
                   ELSE IF ar = {"B"} THEN <<"B">> ELSE <<>>
Archetype_get_column_index(ar, c) ==
    IF \E i \in 1..Len(SortedComps(ar)) : SortedComps(ar)[i] = c
    THEN (CHOOSE i \in 1..Len(SortedComps(ar)) : SortedComps(ar)[i] = c) - 1
    ELSE ColumnIndex_null

\* With<T>::archetype_filter: TRUE rejects the archetype.
With_archetype_filter(ar, c) == Archetype_get_column_index(ar, c) = ColumnIndex_null
\* Without<T>::archetype_filter
Without_archetype_filter(ar, c) == ~(Archetype_get_column_index(ar, c) = ColumnIndex_null)

\* FilterArchetype for a tuple of With, the argument of Or.
RECURSIVE Or_filter_archetype(_, _)
\* Mutant: the tuple under Or rejects as soon as one With rejects.
RECURSIVE Or_filter_archetype_all(_, _)
Or_filter_archetype_all(ar, cs) ==
    IF cs = <<>> THEN FALSE
    ELSE IF With_archetype_filter(ar, Head(cs)) THEN TRUE
    ELSE Or_filter_archetype_all(ar, Tail(cs))

Or_filter_archetype(ar, cs) ==
    IF cs = <<>> THEN TRUE
    ELSE IF ~With_archetype_filter(ar, Head(cs)) THEN FALSE
    ELSE Or_filter_archetype(ar, Tail(cs))

\* FilterComponents::archetype_filter of one member; Changed keeps the default.
Filter_archetype_filter(ar, f) ==
    IF f.k = "With" THEN With_archetype_filter(ar, f.c)
    ELSE IF f.k = "Without" THEN Without_archetype_filter(ar, f.c)
    ELSE IF f.k = "Or" THEN Or_filter_archetype(ar, f.cs)
    ELSE FALSE

\* FetchComponents::archetype_filter of one member; Option keeps the default.
Fetch_archetype_filter(ar, q) ==
    IF q.k \in {"Ref", "Mut"} THEN Archetype_get_column_index(ar, q.c) = ColumnIndex_null
    ELSE FALSE

\* archetype_filter of a tuple of filters or of fetches.
RECURSIVE Tuple_archetype_filter(_, _, _)
Tuple_archetype_filter(ar, t, i) ==
    IF i > Len(t) THEN FALSE
    ELSE IF (IF t[i].k \in {"Ref", "Mut", "OptRef", "OptMut"}
             THEN Fetch_archetype_filter(ar, t[i]) ELSE Filter_archetype_filter(ar, t[i]))
    THEN TRUE
    ELSE Tuple_archetype_filter(ar, t, i + 1)

\* The test at the head of QueryState::add_archetype: TRUE = accepted.
Query_accepts(ar, f, q) ==
    ~(Tuple_archetype_filter(ar, f, 1) \/ Tuple_archetype_filter(ar, q, 1))

\* Column::get of the archetype's column at index i.
NoItem == <<"None">>
Table_get_column_unchecked(ar, i) == SortedComps(ar)[i + 1]
Column_get(c, row) == <<c, row>>

\* init_state, init_fetch and fetch of one member at a row.
\* Mutant: Option fetch that reads the archetype's first column.
Fetch_fetch_first(ar, q, row) ==
    IF SortedComps(ar) = <<>> THEN NoItem
    ELSE Column_get(Table_get_column_unchecked(ar, 0), row)

Fetch_fetch(ar, q, row) ==
    LET state == Archetype_get_column_index(ar, q.c)
    IN IF q.k \in {"OptRef", "OptMut"}
       THEN IF state # ColumnIndex_null
            THEN Column_get(Table_get_column_unchecked(ar, state), row)
            ELSE NoItem
       ELSE Column_get(Table_get_column_unchecked(ar, state), row)

InitFetch ==
    \E f \in TuplesOf(FilterMembers, MaxMembers) : \E q \in TuplesOf(FetchMembers, MaxMembers) :
    \E ar \in SUBSET Comps :
        /\ Len(f) + Len(q) <= MaxMembers
        /\ entities = [a \in ArIds |-> <<>>]
        /\ removes = [a \in ArIds |-> <<>>]
        /\ cells = [a \in ArIds |-> [c2 \in Comps |-> [r \in Rows |-> NoVal]]]
        /\ world = [e \in Entities |-> NoAddr]
        /\ dropCount = [v \in Vals |-> 0]
        /\ ver = [e \in Entities |-> [c2 \in Comps |-> 0]]
        /\ op = IdleOp
        /\ nextEnt = 1
        /\ alive = [a \in ArIds |-> TRUE]
        /\ ticks = [a \in ArIds |-> [r \in Rows |-> 0]]
        /\ records = [a \in ArIds |-> <<<<>>, <<>>>>]
        /\ archetype_arr = <<>>
        /\ qstate = NoQuery
        /\ qiter = NoIter
        /\ ret = [kind |-> "query", f |-> f, q |-> q, ar |-> ar]
        /\ blob = NoBlob

\* add_archetype's test; for an accepted archetype, the fetch of every row.
QueryMatch ==
    /\ ret.kind = "query"
    /\ ret' = [kind |-> "matched", f |-> ret.f, q |-> ret.q, ar |-> ret.ar,
               accepted |-> Query_accepts(ret.ar, ret.f, ret.q),
               items |-> IF Query_accepts(ret.ar, ret.f, ret.q)
                         THEN [row \in FetchRows |->
                                  [i \in 1..Len(ret.q) |-> Fetch_fetch(ret.ar, ret.q[i], row)]]
                         ELSE <<>>]
    /\ UNCHANGED tvars
    /\ UNCHANGED <<ticks, records, archetype_arr, qstate, qiter, blob>>

NextFetch == QueryMatch

SpecFetch == InitFetch /\ [][NextFetch]_vars

\* What a member asks of the archetype.
MemberAccepts(ar, m) ==
    IF m.k = "With" THEN m.c \in ar
    ELSE IF m.k = "Without" THEN m.c \notin ar
    ELSE IF m.k = "Or" THEN \E i \in 1..Len(m.cs) : m.cs[i] \in ar
    ELSE IF m.k \in {"Ref", "Mut"} THEN m.c \in ar
    ELSE TRUE

\* C33: the query accepts the archetype exactly when every member of the
\* filter tuple and of the fetch tuple accepts it: With<T> the archetypes with
\* T, Without<T> those without T, Or<(With<C1>, ..)> those with some Ci, &T and
\* &mut T those with T.
C33_MembersAccept ==
    ret.kind = "matched" =>
        (ret.accepted <=> /\ \A i \in 1..Len(ret.f) : MemberAccepts(ret.ar, ret.f[i])
                          /\ \A i \in 1..Len(ret.q) : MemberAccepts(ret.ar, ret.q[i]))

\* An archetype with only B, accepted by Or<(With<A>, With<B>)> with &B.
C33_Witness ==
    /\ ret.kind = "matched"
    /\ ret.accepted
    /\ ret.ar = {"B"}
    /\ ret.f = <<[k |-> "Or", c |-> "A", cs |-> <<"A", "B">>]>>
    /\ ret.q = <<[k |-> "Ref", c |-> "B"]>>

\* C34: Option<&T> and Option<&mut T> never reject an archetype; on an
\* accepted archetype they yield None at every row when the archetype lacks T
\* and the value stored at the row when it has T.
C34_OptionFetch ==
    ret.kind = "matched" =>
        \A i \in 1..Len(ret.q) :
            ret.q[i].k \in {"OptRef", "OptMut"} =>
                /\ ~Fetch_archetype_filter(ret.ar, ret.q[i])
                /\ ret.accepted => \A row \in FetchRows :
                      ret.items[row][i] = IF ret.q[i].c \in ret.ar
                                          THEN <<ret.q[i].c, row>> ELSE NoItem

\* An archetype with only A, accepted and fetched with (&A, Option<&B>): the
\* second item of row 1 is None.
C34_Witness ==
    /\ ret.kind = "matched"
    /\ ret.accepted
    /\ ret.ar = {"A"}
    /\ ret.q = <<[k |-> "Ref", c |-> "A"], [k |-> "OptRef", c |-> "B"]>>
    /\ ret.items[1][2] = NoItem

\* ------------------------------------------------------- C35 (under Spec)
\* C35: no alloc returns row 0 and no entity is stored at row 0 of a table.
C35_RowZeroNeverUsed ==
    /\ (op.kind \in {"insert", "alter"} /\ op.pc # "idle") => op.drow # 0
    /\ \A a \in ArIds : Table_len(a) > 0 => Table_get(a, 0) = Null

\* ----------------------------------------------------------- SpecRemoves
\* Table::removes_action on the queues of SpecSettle: any table length up to
\* MaxLen and any set of its rows, queued in any order.  ret keeps the queue,
\* the length, the result and, for a queue of two rows or more that is shorter
\* than the table, the result of the sorted branch and of the bitset branch.
NoAction == [len |-> -1, action |-> <<>>]

RemovesAction ==
    /\ op.kind = "unsettled"
    /\ ret.kind = "none"
    /\ LET rem == removes[1]
           L == Table_len(1)
           both == Len(rem) >= 2 /\ Len(rem) < L
       IN ret' = [kind |-> "action", rem |-> rem, L |-> L,
                  res |-> removes_action(rem, Len(rem), L),
                  both |-> both,
                  sparse |-> IF both THEN RemovesSparse(rem, L) ELSE NoAction,
                  dense |-> IF both THEN RemovesDense(rem, L) ELSE NoAction]
    /\ UNCHANGED tvars
    /\ UNCHANGED <<ticks, records, archetype_arr, qstate, qiter, blob>>

NextRemoves == RemovesAction

SpecRemoves == InitSettle /\ [][NextRemoves]_vars

\* The result r is right for the queue rem of a table of L rows.
ActionOk(r, rem, L) ==
    LET R == Len(rem)
        removed == SeqToSet(rem)
        act == r.action
    IN /\ r.len = IF R >= L THEN 0 ELSE L - R
       /\ \A i \in 1..Len(act) :
             /\ act[i][1] \notin removed /\ act[i][1] >= r.len /\ act[i][1] < L
             /\ act[i][2] \in removed /\ act[i][2] < r.len
       /\ \A i \in 1..Len(act) : \A j \in 1..Len(act) :
             i # j => (act[i][1] # act[j][1] /\ act[i][2] # act[j][2])
       /\ \A row \in removed :
             row < r.len => \E i \in 1..Len(act) : act[i][2] = row

\* C36: removes_action returns 0 when R >= L and L - R otherwise; every pair
\* moves a row that is not removed, at or above the new length, to a removed
\* row below it; sources are distinct, destinations are distinct, and every
\* removed row below the new length is a destination; so in the branch taken
\* and in the sorted and the bitset branch.
C36_RemovesAction ==
    ret.kind = "action" =>
        /\ ActionOk(ret.res, ret.rem, ret.L)
        /\ ret.both => (ActionOk(ret.sparse, ret.rem, ret.L) /\ ActionOk(ret.dense, ret.rem, ret.L))
        /\ (Len(ret.rem) = 1 /\ ret.rem[1] = ret.L - 1) => ret.res.action = <<>>

\* A queue of two rows of a table of six, the last row and an inner one, taken
\* by the sorted branch: one pair.
C36_Witness ==
    /\ ret.kind = "action"
    /\ ret.L = 6
    /\ ret.rem = <<5, 1>>
    /\ SparseRemoves(2, 6)
    /\ ret.res.action = << <<4, 1>> >>

\* C37: for a queue of two or more rows shorter than the table, the sorted
\* branch and the bitset branch give the same length and the same set of pairs.
C37_SparseEqualsDense ==
    (ret.kind = "action" /\ ret.both) =>
        /\ ret.sparse.len = ret.dense.len
        /\ SeqToSet(ret.sparse.action) = SeqToSet(ret.dense.action)

\* A queue of three rows of a table of six, the last row among them, two pairs.
C37_Witness ==
    /\ ret.kind = "action"
    /\ ret.both
    /\ ret.L = 6
    /\ ret.rem = <<5, 0, 2>>
    /\ Len(ret.dense.action) = 2

\* ----------------------------------------------------------- SpecCollect
\* Table::settle with the column's ticks: the tables of SpecSettle, the tick of
\* row r being r + 1, the column keeping ticks (COMPONENT_TICK) or not.  The
\* move pairs are applied to the column in any order: ret keeps the cells and
\* ticks that order gives, next to the state before the settle.
InitCollect ==
    \E L \in 0..MaxLen : \E nulls \in SUBSET (0..(L - 1)) : \E rem \in Perms(nulls) :
    \E is_tick \in BOOLEAN :
        /\ entities = [a \in ArIds |-> IF a = 1
                          THEN [i \in 1..L |-> IF (i - 1) \in nulls THEN Null ELSE i]
                          ELSE <<>>]
        /\ removes = [a \in ArIds |-> IF a = 1 THEN rem ELSE <<>>]
        /\ cells = [a \in ArIds |-> [c \in Comps |-> [r \in 0..(MaxLen - 1) |->
                          IF a = 1 /\ c = "A" /\ r < L THEN <<r + 1, "A", 0>> ELSE NoVal]]]
        /\ world = [e \in 1..MaxLen |-> IF e <= L /\ (e - 1) \notin nulls
                                        THEN [ar |-> 1, row |-> e - 1] ELSE NoAddr]
        /\ dropCount = [v \in ((1..MaxLen) \X Comps \X {0}) \cup {NoVal} |->
                          IF v # NoVal /\ v[2] = "A" /\ (v[1] - 1) \in nulls THEN 1 ELSE 0]
        /\ ver = [e \in 1..MaxLen |-> [c \in Comps |-> IF c = "A" /\ e <= L THEN 1 ELSE 0]]
        /\ op = [IdleOp EXCEPT !.kind = "unsettled", !.srow = L]
        /\ nextEnt = L + 1
        /\ alive = [a \in ArIds |-> TRUE]
        /\ ticks = [a \in ArIds |-> [r \in 0..(MaxLen - 1) |->
                          IF a = 1 /\ r < L /\ is_tick THEN r + 1 ELSE 0]]
        /\ records = [a \in ArIds |-> <<<<>>, <<>>>>]
        /\ archetype_arr = <<>>
        /\ qstate = NoQuery
        /\ qiter = NoIter
        /\ ret = [kind |-> "column", is_tick |-> is_tick]
        /\ blob = NoBlob

\* The tick loop of Column::collect: with COMPONENT_TICK each pair copies the
\* tick of the source row to the destination row.
Column_collect_ticks(is_tick, tks, action) ==
    IF is_tick THEN Column_collect(tks, action) ELSE tks

CollectSettle ==
    /\ op.kind = "unsettled"
    /\ ret.kind = "column"
    /\ LET r == Table_settle(1)
       IN /\ entities' = [entities EXCEPT ![1] = r.ents]
          /\ removes' = [removes EXCEPT ![1] = r.rem]
          /\ cells' = [cells EXCEPT ![1] = r.cols]
          /\ world' = r.w
          /\ ticks' = [ticks EXCEPT ![1] = Column_collect_ticks(ret.is_tick, @, r.action)]
          /\ op' = [op EXCEPT !.kind = "settled", !.src = 1, !.drow = Len(r.action)]
          /\ \E order \in Perms(SeqToSet(r.action)) :
                ret' = [kind |-> "collected", is_tick |-> ret.is_tick,
                        action |-> r.action, order |-> order,
                        ents |-> entities[1], cells |-> cells[1]["A"], ticks |-> ticks[1],
                        ocells |-> Blob_keep(Column_collect(cells[1]["A"], order), Len(r.ents)),
                        oticks |-> Column_collect_ticks(ret.is_tick, ticks[1], order)]
    /\ UNCHANGED <<dropCount, ver, nextEnt, alive>>
    /\ UNCHANGED <<records, archetype_arr, qstate, qiter, blob>>

NextCollect == CollectSettle

SpecCollect == InitCollect /\ [][NextCollect]_vars

LiveOf(ents) == SeqToSet(ents) \ {Null}

InLists(c) ==
    Cardinality({k \in 1..Len(ret.dst.adding) : ret.dst.adding[k] = c})
    + Cardinality({k \in 1..Len(ret.dst.moving) : ret.dst.moving[k] = c})
    + Cardinality({k \in 1..Len(ret.dst.removing) : ret.dst.removing[k] = c})

\* C39: after alter1 every source column is in exactly one of moving, removing
\* and adding; no column is in two lists or twice in one; adding with moving is
\* the destination's column set; removing is disjoint from the destination; a
\* remove op of a component the source has not puts nothing in any list.
C39_AlterLists ==
    Altered =>
        /\ \A c \in SrcSet : InLists(c) = 1
        /\ \A c \in ComponentIndexes : InLists(c) <= 1
        /\ Adding \cup Moving = DstSet
        /\ Removing \cap DstSet = {}
        /\ \A k \in 1..Len(ret.ops) :
              (~OpAdd(k) /\ OpIndex(k) \notin SrcSet) =>
                  /\ OpIndex(k) \notin Moving \cup Removing
                  /\ FirstOp(k) => InLists(OpIndex(k)) = 0
                  /\ OpIndex(k) \in Adding =>
                        \E j \in 1..(k - 1) : FirstOp(j) /\ OpIndex(j) = OpIndex(k) /\ OpAdd(j)

\* A remove op of an absent component comes first, a present column is
\* removed, and a column no op names moves.
C39_Witness ==
    /\ Altered
    /\ \E k \in 1..Len(ret.ops) : ~OpAdd(k) /\ OpIndex(k) \notin SrcSet /\ FirstOp(k)
    /\ Removing # {}
    /\ Moving # {}

\* ------------------------------------------------------------- SpecTwice
\* Table::destroy and Table::mark_remove called on any row below the length,
\* in any order and any number of times, the row already removed or not.
TwiceDestroy(a, row) ==
    /\ row < Table_len(a)
    /\ LET r == Table_destroy(a, row)
       IN /\ entities' = [entities EXCEPT ![a] = r.ents]
          /\ removes' = [removes EXCEPT ![a] = r.rem]
          /\ dropCount' = r.dc
          /\ ret' = [kind |-> "destroy", via |-> "table", ar |-> a, row |-> row, e |-> r.e,
                     before |-> Table_get(a, row), queued |-> Len(removes[a])]
    /\ UNCHANGED <<cells, world, ver, op, nextEnt, alive>>
    /\ UNCHANGED <<ticks, records, archetype_arr, qstate, qiter, blob>>

NextTwice ==
    \/ \E a \in ArIds : MarkInsert(a)
    \/ \E a \in ArIds : \E row \in Rows : MarkTable(a, row)
    \/ \E a \in ArIds : \E row \in Rows : TwiceDestroy(a, row)

SpecTwice == InitMark /\ [][NextTwice]_vars

\* C40: destroy or mark_remove on a row whose entity slot is null returns the
\* null entity and changes nothing: no cell is dropped and the row is not
\* queued again; so each row is in removes at most once.
C40_NullRowUntouched ==
    [][/\ \A a \in ArIds : \A row \in Rows :
             ((TwiceDestroy(a, row) \/ MarkTable(a, row)) /\ Table_get(a, row) = Null) =>
                 /\ ret'.e = Null
                 /\ UNCHANGED <<entities, removes, cells, world, dropCount>>
       /\ \A a \in ArIds : NoRepeat(removes[a]')]_vars

\* destroy was called on a row that mark_remove had removed before.
C40_Witness ==
    /\ ret.kind = "destroy"
    /\ ret.before = Null
    /\ ret.e = Null
    /\ ret.row \in SeqToSet(removes[ret.ar])
    /\ dropCount = [v \in Vals |-> 0]

=============================================================================
